---- MODULE Spec2Model ----
(***************************************************************************)
(* Tello link layer: drones/connection/connector.py (class Connector).     *)
(* Four threads share the Connector's fields without locks: the caller     *)
(* ("user": initialize, the requests, halt, close), the response listener  *)
(* ("resp": _receive_response), the telemetry listener ("state":           *)
(* _receive_state) and the command dispatcher ("sender": _send_commands).  *)
(* Every statement that reads or writes a shared field is one step; the    *)
(* labels "Lnnn" are line numbers of connector.py.                         *)
(***************************************************************************)
EXTENDS Integers, Sequences, FiniteSets, TLC

\* config.ini, init_attempts: number of handshake attempts (connector.py:75)
InitAttempts == 3
\* commands whose answer the response socket has not delivered yet
MaxInFlight == 1

Threads == {"user", "sender", "resp", "state"}
\* threads that execute _send_command (and, nested in it, halt)
Senders == {"user", "sender"}
\* threads that execute close()
Closers == {"user", "resp", "state"}

\* drone_instruction.py: the wire tokens
command == "command"
takeoff == "takeoff"
\* a fault: the landing is requested with the token of the motor cut-off
emergency == "emergency"
land == "land"
streamon == "streamon"
streamoff == "streamoff"
rc(left_right, fwd_back, up_down, yaw) == <<"rc", left_right, fwd_back, up_down, yaw>>

\* the four discrete kinds, in the order _send_commands examines them
Kinds == <<land, takeoff, streamon, streamoff>>
KindSet == {Kinds[i] : i \in 1..Len(Kinds)}

\* a fault: the connector starts with a vector that moves the drone
StaleVector == rc(0, 30, 10, -5)
\* self._current_rc after __init__ (line 89) and after halt (line 268)
Neutral == rc(0, 0, 0, 0)
\* control vectors a caller passes to _set_rc
RcInputs == {Neutral, rc(0, 30, 10, -5)}

\* MovementInstruction(takeoff, land, target_yaw, diff_fwd, diff_rl, diff_y)
\* values a caller passes to send_instruction
Instructions == {<<FALSE, FALSE, 0, 20, 0, 5>>}

\* payloads the drone answers with; "ok" is the success token
Payloads == {"ok", "error Motor stop", "out of range"}
\* a fault: every payload that is not "ok" is taken for an error
NotOkIsError(p) == p # "ok"
\* `"error" in self._drone_response` (substring test) on the payloads above
ContainsError(p) == p \in {"error", "error Motor stop"}
\* telemetry datagrams: the Tello reports its 16 values as label:value;...
StatePayloads ==
  {"pitch:0;roll:1;yaw:2;vgx:3;vgy:4;vgz:5;templ:6;temph:7;tof:8;h:9;bat:10;"
     \o "baro:11.5;time:12;agx:13.1;agy:14.2;agz:15.3"}

VARIABLES
  should_stop,      \* self._should_stop
  tello_connected,  \* self._tello_connected
  landed,           \* self._landed
  stream_on,        \* self._stream_on (the mode bit)
  current_rc,       \* self._current_rc
  send,             \* self._send_land/_send_takeoff/_send_stream_on/_send_stream_off
  drone_response,   \* self._drone_response
  response_event,   \* self._response_event (threading.Event)
  drone_state,      \* self._state
  sock_response,    \* self._socket_receive_response: none/unbound/bound/closed
  sock_state,       \* self._socket_receive_state
  stream_thread,    \* self._stream_thread started
  last_instruction, \* self._last_instruction
  pc,               \* position of each thread
  cmd,              \* argument of the _send_command a thread is executing
  tries,            \* loop variable of initialize's for loop
  rc_local,         \* local rc of _send_rc
  new_rc,           \* argument of _set_rc
  owed,             \* commands transmitted whose answer has not been delivered
  \* history of the run (not fields of the program)
  initRet,          \* initialize(): none (not called), running, true, false
  okAttempt,        \* running initialize: the attempt whose _send_command returned True, or 0
  cmdSent,          \* running initialize: handshake tokens transmitted
  lastSent,         \* last datagram the dispatcher transmitted, as a tuple of its tokens
  resent,           \* the dispatcher transmitted two discrete datagrams with no rc between
  outcome,          \* how the dispatcher's last _send_command ended
  halted,           \* halt() has been entered
  fresh,            \* _drone_response was stored after the event was last cleared
  wasClosed,        \* a close() that found the connection connected has completed
  \* the other units of the repository, each exercised on its own
  input,            \* arguments of the function under evaluation
  output,           \* what the function returned or raised
  tpl,              \* the ConnectorTemplate instance: its fields and its threads
  frames            \* the frame and result queues and their two processes

prog == <<should_stop, tello_connected, landed, stream_on, current_rc, send,
          drone_response, response_event, drone_state, sock_response, sock_state,
          stream_thread, last_instruction>>
ctl == <<pc, cmd, tries, rc_local, new_rc>>
net == <<owed>>
hist == <<initRet, okAttempt, cmdSent, lastSent, resent, outcome, halted, fresh,
          wasClosed>>
\* the state outside the Connector
aux == <<input, output, tpl, frames>>
vars == <<prog, ctl, net, hist, aux>>

send_land == send[land]
send_takeoff == send[takeoff]
send_stream_on == send[streamon]
send_stream_off == send[streamoff]

Min(a, b) == IF a < b THEN a ELSE b

\* no function is under evaluation
None == <<"None">>

\* Connector.__init__ (lines 64-102); no thread exists yet
Constructed ==
  /\ should_stop = TRUE
  /\ tello_connected = FALSE
  /\ landed = TRUE
  /\ stream_on = FALSE
  /\ current_rc = Neutral
  /\ send = [k \in KindSet |-> FALSE]
  /\ drone_response = "None"
  /\ response_event = FALSE
  /\ drone_state = "unset"
  /\ sock_response = "none"
  /\ sock_state = "none"
  /\ stream_thread = FALSE
  /\ last_instruction = None
  /\ pc = [t \in Threads |-> IF t = "user" THEN "idle" ELSE "none"]
  /\ cmd = [t \in Senders |-> "none"]
  /\ tries = 0
  /\ rc_local = Neutral
  /\ new_rc = Neutral
  /\ owed = 0
  /\ initRet = "none"
  /\ okAttempt = 0
  /\ cmdSent = 0
  /\ lastSent = <<"none">>
  /\ resent = FALSE
  /\ outcome = "none"
  /\ halted = FALSE
  /\ fresh = FALSE
  /\ wasClosed = FALSE

\* ConnectorTemplate.__init__ (connector_template.py, lines 22-46); no thread
\* exists yet.  `state` is self._state, which __init__ does not create;
\* `command` is the local of _send_command in each thread that runs it;
\* `owed` counts the commands transmitted and not yet answered; `ret` is what
\* initialize() has returned
TemplateConstructed ==
  [socket_receive_response |-> "none",
   socket_receive_state |-> "none",
   tello_connected |-> FALSE,
   last_instruction |-> None,
   drone_instruction_stack |-> <<>>,
   response_event |-> FALSE,
   new_instruction_event |-> FALSE,
   drone_response |-> "None",
   state |-> "unset",
   pc |-> [t \in Threads |-> IF t = "user" THEN "idle" ELSE "none"],
   command |-> [t \in Senders |-> None],
   owed |-> 0,
   ret |-> "none"]

\* main.py, lines 48-55: the two queues are created empty, ImageProcessor
\* and FrameGetterProcess are constructed.  A multiprocessing.Queue is a
\* buffer in the putting process, which a feeder thread empties into a pipe;
\* `frame` and `iterator` are the locals of FrameGetterProcess.run,
\* `next_frame` and `i` those of ImageProcessor.run; a frame is
\* <<"frame", n>>, the n-th of the stream
ProcessesCreated ==
  [buffer |-> <<>>,
   pipe |-> <<>>,
   result_queue |-> <<>>,
   frame |-> None,
   iterator |-> 0,
   next_frame |-> None,
   i |-> 0,
   pc |-> [p \in {"getter", "processor"} |-> "none"]]

\* the module-level instances (connector.py:380, connector_template.py:219)
\* and the processes of main.py
Init ==
  /\ Constructed /\ input = None /\ output = None
  /\ tpl = TemplateConstructed /\ frames = ProcessesCreated

Goto(t, l) == pc' = [pc EXCEPT ![t] = l]

----
\* initialize (lines 104-147)

\* main.py calls initialize() once (flag == 0)
InitializeCall ==
  /\ pc["user"] = "idle" /\ initRet = "none"
  /\ initRet' = "running"
  /\ Goto("user", "L116")
  /\ UNCHANGED <<prog, cmd, tries, rc_local, new_rc, net, okAttempt, cmdSent,
                 lastSent, resent, outcome, halted, fresh, wasClosed, aux>>

\* a fault: the handshake runs although a socket could not be bound (the
\* else clause of the try statement written as a finally clause)
BindFailedContinues == "L125"

\* where initialize continues when a socket could not be created or bound:
\* the except branch logs and falls through to line 146
BindFailedNext == "L146"

\* lines 116-117: socket() and bind() of the response socket
BindResponse ==
  /\ pc["user"] = "L116"
  /\ \E ok \in BOOLEAN :
       IF ok THEN sock_response' = "bound" /\ Goto("user", "L118")
             ELSE sock_response' = "unbound" /\ Goto("user", BindFailedNext)
  /\ UNCHANGED <<should_stop, tello_connected, landed, stream_on, current_rc, send,
                 drone_response, response_event, drone_state, sock_state,
                 stream_thread, cmd, tries, rc_local, new_rc, net, hist, last_instruction, aux>>

\* lines 118-119: socket() and bind() of the state socket
BindState ==
  /\ pc["user"] = "L118"
  /\ \E ok \in BOOLEAN :
       IF ok THEN sock_state' = "bound" /\ Goto("user", "L125")
             ELSE sock_state' = "unbound" /\ Goto("user", BindFailedNext)
  /\ UNCHANGED <<should_stop, tello_connected, landed, stream_on, current_rc, send,
                 drone_response, response_event, drone_state, sock_response,
                 stream_thread, cmd, tries, rc_local, new_rc, net, hist, last_instruction, aux>>

\* lines 125-126: the response listener thread is started
StartResponseThread ==
  /\ pc["user"] = "L125"
  /\ pc' = [pc EXCEPT !["user"] = "L129", !["resp"] = "L154"]
  /\ UNCHANGED <<prog, cmd, tries, rc_local, new_rc, net, hist, aux>>

\* line 129: for tries in range(1, init_attempts + 1); line 131 calls _send_command
HandshakeLoop ==
  /\ pc["user"] = "L129"
  /\ IF tries < InitAttempts
       THEN /\ tries' = tries + 1
            /\ cmd' = [cmd EXCEPT !["user"] = command]
            /\ Goto("user", "L356")
       ELSE /\ Goto("user", "L146")
            /\ cmd' = [cmd EXCEPT !["user"] = "none"]
            /\ UNCHANGED tries
  /\ UNCHANGED <<prog, rc_local, new_rc, net, hist, aux>>

----
\* initialize, after _send_command returned True (lines 133-144)

\* line 133
SetConnected ==
  /\ pc["user"] = "L133"
  /\ tello_connected' = TRUE
  /\ cmd' = [cmd EXCEPT !["user"] = "none"]
  /\ Goto("user", "L134")
  /\ UNCHANGED <<should_stop, landed, stream_on, current_rc, send, drone_response,
                 response_event, drone_state, sock_response, sock_state,
                 stream_thread, tries, rc_local, new_rc, net, hist, last_instruction, aux>>

\* lines 134-136: the telemetry listener thread is started
StartStateThread ==
  /\ pc["user"] = "L134"
  /\ pc' = [pc EXCEPT !["user"] = "L137", !["state"] = "L169"]
  /\ UNCHANGED <<prog, cmd, tries, rc_local, new_rc, net, hist, aux>>

\* lines 137-139: the dispatcher thread is started
StartSenderThread ==
  /\ pc["user"] = "L137"
  /\ pc' = [pc EXCEPT !["user"] = "L140", !["sender"] = "L288"]
  /\ UNCHANGED <<prog, cmd, tries, rc_local, new_rc, net, hist, aux>>

\* a fault: the `return True` of line 144 is missing, the for loop goes on
NoReturnTrue ==
  /\ pc["user"] = "L140"
  /\ stream_thread' = TRUE
  /\ Goto("user", "L129")
  /\ UNCHANGED <<should_stop, tello_connected, landed, stream_on, current_rc, send,
                 drone_response, response_event, drone_state, sock_response,
                 sock_state, cmd, tries, rc_local, new_rc, net, hist, last_instruction, aux>>

\* lines 140-144: the video thread is started, initialize returns True
\* (its local tries and the counts of the call end with it)
ReturnTrue ==
  /\ pc["user"] = "L140"
  /\ stream_thread' = TRUE
  /\ initRet' = "true"
  /\ tries' = 0 /\ okAttempt' = 0 /\ cmdSent' = 0
  /\ Goto("user", "idle")
  /\ UNCHANGED <<should_stop, tello_connected, landed, stream_on, current_rc, send,
                 drone_response, response_event, drone_state, sock_response,
                 sock_state, cmd, rc_local, new_rc, net,
                 lastSent, resent, outcome, halted, last_instruction, fresh, wasClosed, aux>>

\* lines 146-147: "Connecting failed", initialize returns False
ReturnFalse ==
  /\ pc["user"] = "L146"
  /\ initRet' = "false"
  /\ tries' = 0 /\ okAttempt' = 0 /\ cmdSent' = 0
  /\ Goto("user", "idle")
  /\ UNCHANGED <<prog, cmd, rc_local, new_rc, net,
                 lastSent, resent, outcome, halted, fresh, wasClosed, aux>>

----
\* _send_command (lines 353-371), executed by initialize (user) and by the
\* dispatcher (sender)

\* where the caller continues when _send_command returned True:
\* initialize at line 133, _send_commands after its while loop
OnTrue(t) ==
  IF t = "user" THEN "L133"
  ELSE CASE cmd[t] = land -> "L297"
         [] cmd[t] = takeoff -> "L305"
         [] cmd[t] = streamon -> "L313"
         [] OTHER -> "L321"

\* a fault: the dispatcher gives the command up for this cycle (an `if` in
\* place of the `while`) and goes on to the loop top
OnFalseNextCycle(t) == IF t = "user" THEN "L129" ELSE "L288"

\* where the caller continues when _send_command returned False: initialize
\* takes the next attempt (line 129), _send_commands evaluates its
\* `while not self._send_command(...)` again, i.e. calls it again (line 356)
OnFalse(t) == IF t = "user" THEN "L129" ELSE "L356"

\* line 356: self._response_event.clear()
ClearEvent(t) ==
  /\ pc[t] = "L356"
  /\ response_event' = FALSE
  /\ fresh' = FALSE
  /\ Goto(t, "L359")
  /\ UNCHANGED <<should_stop, tello_connected, landed, stream_on, current_rc, send,
                 drone_response, drone_state, sock_response, sock_state,
                 stream_thread, last_instruction, cmd, tries, rc_local, new_rc, net,
                 initRet, okAttempt, cmdSent, lastSent, resent, outcome, halted, wasClosed, aux>>

\* line 359: sendto(command); on a closed socket it raises OSError, which
\* nothing catches: the thread ends
SendCommand(t) ==
  /\ pc[t] = "L359"
  /\ IF sock_response = "closed"
       THEN /\ Goto(t, "dead")
            /\ UNCHANGED <<net, hist, aux>>
       ELSE /\ Goto(t, "L361")
            /\ owed' = Min(owed + 1, MaxInFlight)
            /\ cmdSent' = IF t = "user" THEN cmdSent + 1 ELSE cmdSent
            /\ lastSent' = IF t = "sender" THEN <<cmd[t]>> ELSE lastSent
            /\ resent' = IF t = "sender" THEN (resent \/ lastSent[1] \notin {"rc", "none"}) ELSE resent
            /\ outcome' = IF t = "sender" THEN "waiting" ELSE outcome
            /\ UNCHANGED <<initRet, okAttempt, halted, fresh, wasClosed, aux>>
  /\ UNCHANGED <<prog, cmd, tries, rc_local, new_rc>>

\* line 361: wait() returns True, the event is set
WaitSet(t) ==
  /\ pc[t] = "L361"
  /\ response_event
  /\ Goto(t, "L362")
  /\ UNCHANGED <<prog, cmd, tries, rc_local, new_rc, net, hist, aux>>

\* lines 361, 368-371: wait() timed out, _send_command returns False
WaitTimeout(t) ==
  /\ pc[t] = "L361"
  /\ ~response_event
  /\ Goto(t, OnFalse(t))
  /\ outcome' = IF t = "sender" THEN "timeout" ELSE outcome
  /\ UNCHANGED <<prog, cmd, tries, rc_local, new_rc, net, initRet, okAttempt, cmdSent,
                 lastSent, resent, halted, fresh, wasClosed, aux>>

\* line 362: self._drone_response == "ok"
IsOk(p) == p = "ok"

\* lines 362-364: the response is "ok", _send_command returns True
CheckOk(t) ==
  /\ pc[t] = "L362"
  /\ IF IsOk(drone_response)
       THEN /\ Goto(t, OnTrue(t))
            /\ okAttempt' = IF t = "user" THEN tries ELSE okAttempt
            /\ outcome' = IF t = "sender" THEN "ok" ELSE outcome
       ELSE /\ Goto(t, "L365")
            /\ UNCHANGED <<okAttempt, outcome>>
  /\ UNCHANGED <<prog, cmd, tries, rc_local, new_rc, net, initRet, cmdSent, lastSent,
                 resent, halted, fresh, wasClosed, aux>>

\* a fault: an error response is taken for the acknowledgment
OnErrorAccept(t) == OnTrue(t)

\* line 367: on an error response _send_command calls halt()
OnError(t) == "L267"

\* lines 365-367 and 371: an error response calls halt(), any other response
\* returns False
CheckError(t) ==
  /\ pc[t] = "L365"
  /\ IF ContainsError(drone_response)
       THEN /\ Goto(t, OnError(t))
            /\ outcome' = IF t = "sender" THEN "error" ELSE outcome
       ELSE /\ Goto(t, OnFalse(t))
            /\ outcome' = IF t = "sender" THEN "other" ELSE outcome
  /\ UNCHANGED <<prog, cmd, tries, rc_local, new_rc, net, initRet, okAttempt, cmdSent,
                 lastSent, resent, halted, fresh, wasClosed, aux>>

----
\* halt (lines 258-273), called by the caller, and by _send_command on an
\* error response (then cmd[t] is the command being sent)

HaltCall ==
  /\ pc["user"] = "idle"
  /\ Goto("user", "L267")
  /\ UNCHANGED <<prog, cmd, tries, rc_local, new_rc, net, hist, aux>>

\* line 267: self._should_stop = True
HaltStop(t) ==
  /\ pc[t] = "L267"
  /\ should_stop' = TRUE
  /\ halted' = TRUE
  /\ Goto(t, "L268")
  /\ UNCHANGED <<tello_connected, landed, stream_on, current_rc, send, drone_response,
                 response_event, drone_state, sock_response, sock_state,
                 stream_thread, cmd, tries, rc_local, new_rc, net, initRet, okAttempt,
                 cmdSent, lastSent, resent, outcome, last_instruction, fresh, wasClosed, aux>>

\* line 268: self._current_rc = di.rc(0, 0, 0, 0)
HaltRc(t) ==
  /\ pc[t] = "L268"
  /\ current_rc' = rc(0, 0, 0, 0)
  /\ Goto(t, "L269")
  /\ UNCHANGED <<should_stop, tello_connected, landed, stream_on, send,
                 drone_response, response_event, drone_state, sock_response,
                 sock_state, stream_thread, cmd, tries, rc_local, new_rc, net, hist, last_instruction, aux>>

\* lines 269-271, one assignment each: _send_land = True,
\* _send_takeoff = False, _send_stream_off = False
HaltFlagLine(k) ==
  CASE k = land -> "L269" [] k = takeoff -> "L270" [] OTHER -> "L271"

HaltFlagNext(k) ==
  CASE k = land -> "L270" [] k = takeoff -> "L271" [] OTHER -> "L272"

HaltFlag(t) ==
  /\ \E k \in {land, takeoff, streamoff} :
       /\ pc[t] = HaltFlagLine(k)
       /\ send' = [send EXCEPT ![k] = (k = land)]
       /\ Goto(t, HaltFlagNext(k))
  /\ UNCHANGED <<should_stop, tello_connected, landed, stream_on, current_rc,
                 drone_response, response_event, drone_state, sock_response,
                 sock_state, stream_thread, cmd, tries, rc_local, new_rc, net, hist, last_instruction, aux>>

\* lines 272-273: _send_stream_on = False, and halt returns: to the caller,
\* or into _send_command, which returns False
HaltReturn(t) ==
  /\ pc[t] = "L272"
  /\ send' = [send EXCEPT ![streamon] = FALSE]
  /\ Goto(t, IF cmd[t] = "none" THEN "idle" ELSE OnFalse(t))
  /\ UNCHANGED <<should_stop, tello_connected, landed, stream_on, current_rc,
                 drone_response, response_event, drone_state, sock_response,
                 sock_state, stream_thread, cmd, tries, rc_local, new_rc, net, hist, last_instruction, aux>>

----
\* the requests (lines 328-351)

\* the `if not self._should_stop:` lines of the three requests below
RequestLine(k) ==
  CASE k = takeoff -> "L330" [] k = land -> "L335" [] OTHER -> "L345"

\* the caller calls _takeoff, _land or _stream_off
RequestCall ==
  /\ pc["user"] = "idle"
  /\ \E k \in {takeoff, land, streamoff} : Goto("user", RequestLine(k))
  /\ UNCHANGED <<prog, cmd, tries, rc_local, new_rc, net, hist, aux>>

\* a fault: the requests do not test _should_stop
RequestAlways == TRUE

\* `if not self._should_stop:` of _takeoff, _land, _stream_off and _set_rc
RequestAllowed == ~should_stop

\* lines 330-331, 335-336, 345-346: the flag is set if the test passes
Request ==
  /\ \E k \in {takeoff, land, streamoff} :
       /\ pc["user"] = RequestLine(k)
       /\ send' = IF RequestAllowed THEN [send EXCEPT ![k] = TRUE] ELSE send
  /\ Goto("user", "idle")
  /\ UNCHANGED <<should_stop, tello_connected, landed, stream_on, current_rc,
                 drone_response, response_event, drone_state, sock_response,
                 sock_state, stream_thread, cmd, tries, rc_local, new_rc, net, hist, last_instruction, aux>>

\* _stream_on (lines 338-341): __init__ (line 87) stores the bool _stream_on in
\* the instance, which hides the method of that name, so the call
\* self._stream_on() raises TypeError and the method body never runs
StreamOnCall ==
  /\ pc["user"] = "idle"
  /\ Goto("user", "TypeError")
  /\ UNCHANGED <<prog, cmd, tries, rc_local, new_rc, net, hist, aux>>

\* the TypeError reaches the caller
StreamOnRaise ==
  /\ pc["user"] = "TypeError"
  /\ Goto("user", "idle")
  /\ UNCHANGED <<prog, cmd, tries, rc_local, new_rc, net, hist, aux>>

\* the caller calls _set_rc(v)
SetRcCall ==
  /\ pc["user"] = "idle"
  /\ \E v \in RcInputs : new_rc' = v
  /\ Goto("user", "L350")
  /\ UNCHANGED <<prog, cmd, tries, rc_local, net, hist, aux>>

\* _set_rc (lines 350-351)
SetRc ==
  /\ pc["user"] = "L350"
  /\ current_rc' = IF RequestAllowed THEN new_rc ELSE current_rc
  /\ new_rc' = Neutral
  /\ Goto("user", "idle")
  /\ UNCHANGED <<should_stop, tello_connected, landed, stream_on, send,
                 drone_response, response_event, drone_state, sock_response,
                 sock_state, stream_thread, last_instruction, cmd, tries, rc_local,
                 net, hist, aux>>

\* the caller calls send_instruction(i)
SendInstructionCall ==
  /\ pc["user"] = "idle"
  /\ Goto("user", "L200")
  /\ UNCHANGED <<prog, cmd, tries, rc_local, new_rc, net, hist, aux>>

\* send_instruction (lines 200-202): the instruction is stored; its
\* translation into a control vector is a TODO, nothing else is done
SendInstruction ==
  /\ pc["user"] = "L200"
  /\ \E i \in Instructions : last_instruction' = i
  /\ Goto("user", "idle")
  /\ UNCHANGED <<should_stop, tello_connected, landed, stream_on, current_rc, send,
                 drone_response, response_event, drone_state, sock_response,
                 sock_state, stream_thread, cmd, tries, rc_local, new_rc, net, hist, aux>>

----
\* _send_commands (lines 275-326) and _send_rc (lines 373-377): the dispatcher

\* line 288: if self._tello_connected; else lines 324-326, the thread ends
LoopTop ==
  /\ pc["sender"] = "L288"
  /\ Goto("sender", IF tello_connected THEN "L375" ELSE "dead")
  /\ UNCHANGED <<prog, cmd, tries, rc_local, new_rc, net, hist, aux>>

\* line 375: rc = self._current_rc
ReadRc ==
  /\ pc["sender"] = "L375"
  /\ rc_local' = current_rc
  /\ Goto("sender", "L376")
  /\ UNCHANGED <<prog, cmd, tries, new_rc, net, hist, aux>>

\* line 376: sendto(rc); on a closed socket OSError ends the thread
SendRc ==
  /\ pc["sender"] = "L376"
  /\ IF sock_response = "closed"
       THEN /\ Goto("sender", "dead")
            /\ UNCHANGED <<hist, aux>>
       ELSE /\ Goto("sender", "L292")
            /\ lastSent' = rc_local
            /\ resent' = FALSE
            /\ outcome' = "none"
            /\ UNCHANGED <<initRet, okAttempt, cmdSent, halted, fresh, wasClosed, aux>>
  /\ UNCHANGED <<prog, cmd, tries, rc_local, new_rc, net>>

\* the `if self._send_<kind>:` tests, lines 292, 300, 308, 316
FlagLine(k) ==
  CASE k = land -> "L292" [] k = takeoff -> "L300"
    [] k = streamon -> "L308" [] OTHER -> "L316"

\* the mode bit assignments, lines 297, 305, 313, 321
ModeLine(k) ==
  CASE k = land -> "L297" [] k = takeoff -> "L305"
    [] k = streamon -> "L313" [] OTHER -> "L321"

\* the flag resets, lines 298, 306, 314, 322
ResetLine(k) ==
  CASE k = land -> "L298" [] k = takeoff -> "L306"
    [] k = streamon -> "L314" [] OTHER -> "L322"

\* a fault: the dispatcher ends once land was acknowledged
StopAfterLand(k) ==
  CASE k = land -> "dead" [] k = takeoff -> "L308"
    [] k = streamon -> "L316" [] OTHER -> "L288"

\* what follows the block of kind k: the next kind's test, or the loop top
AfterKind(k) ==
  CASE k = land -> FlagLine(takeoff) [] k = takeoff -> FlagLine(streamon)
    [] k = streamon -> FlagLine(streamoff) [] OTHER -> "L288"

\* lines 292/300/308/316: a pending flag enters the while loop, which calls
\* _send_command(kind)
TestFlag ==
  /\ \E k \in KindSet :
       /\ pc["sender"] = FlagLine(k)
       /\ IF send[k]
            THEN /\ cmd' = [cmd EXCEPT !["sender"] = k]
                 /\ Goto("sender", "L356")
            ELSE /\ Goto("sender", AfterKind(k))
                 /\ UNCHANGED cmd
  /\ UNCHANGED <<prog, tries, rc_local, new_rc, net, hist, aux>>

\* lines 297/305/313/321: _landed = True / False, _stream_on = True / False
SetMode ==
  /\ \E k \in KindSet :
       /\ pc["sender"] = ModeLine(k)
       /\ landed' = IF k = land THEN TRUE ELSE IF k = takeoff THEN FALSE ELSE landed
       /\ stream_on' = IF k = streamon THEN TRUE
                       ELSE IF k = streamoff THEN FALSE ELSE stream_on
       /\ Goto("sender", ResetLine(k))
  /\ UNCHANGED <<should_stop, tello_connected, current_rc, send, drone_response,
                 response_event, drone_state, sock_response, sock_state,
                 stream_thread, cmd, tries, rc_local, new_rc, net, hist, last_instruction, aux>>

\* lines 298/306/314/322: self._send_<kind> = False
ResetFlag ==
  /\ \E k \in KindSet :
       /\ pc["sender"] = ResetLine(k)
       /\ send' = [send EXCEPT ![k] = FALSE]
       /\ Goto("sender", AfterKind(k))
  /\ cmd' = [cmd EXCEPT !["sender"] = "none"]
  /\ UNCHANGED <<should_stop, tello_connected, landed, stream_on, current_rc,
                 drone_response, response_event, drone_state, sock_response,
                 sock_state, stream_thread, tries, rc_local, new_rc, net, hist, last_instruction, aux>>

----
\* _receive_response (lines 149-162) and _receive_state (lines 164-175)

\* A listener at line 154 (169) is inside recvfrom, which it called while the
\* socket was open.  When close() closes the socket under the call, the call
\* either raises OSError or stays blocked and still returns the next
\* datagram (the Linux behaviour); a recvfrom called on a closed socket
\* raises OSError.

\* lines 154-155: recvfrom returns the drone's answer to a command, which is
\* stored in self._drone_response; the drone answers with any payload
Receive ==
  /\ pc["resp"] = "L154"
  /\ sock_response \in {"bound", "closed"}
  /\ owed > 0
  /\ owed' = owed - 1
  /\ \E p \in Payloads : drone_response' = p
  /\ fresh' = TRUE
  /\ Goto("resp", "L156")
  /\ UNCHANGED <<should_stop, tello_connected, landed, stream_on, current_rc, send,
                 response_event, drone_state, sock_response, sock_state,
                 stream_thread, last_instruction, cmd, tries, rc_local, new_rc,
                 initRet, okAttempt, cmdSent, lastSent, resent, outcome, halted, wasClosed, aux>>

\* where a listener of socket state s continues after a datagram: in the next
\* recvfrom (line l), or in the except branch, which calls close() (line 250)
NextRecv(s, l) == IF s = "closed" THEN "L250" ELSE l

\* line 156: self._response_event.set(), then the loop calls recvfrom again
SetEvent ==
  /\ pc["resp"] = "L156"
  /\ response_event' = TRUE
  /\ Goto("resp", NextRecv(sock_response, "L154"))
  /\ UNCHANGED <<should_stop, tello_connected, landed, stream_on, current_rc, send,
                 drone_response, drone_state, sock_response, sock_state,
                 stream_thread, cmd, tries, rc_local, new_rc, net, hist, last_instruction, aux>>

\* lines 154, 159-161: the recvfrom in progress raises OSError because the
\* socket was closed; the listener calls close()
ReceiveError ==
  /\ pc["resp"] = "L154"
  /\ sock_response = "closed"
  /\ Goto("resp", "L250")
  /\ UNCHANGED <<prog, cmd, tries, rc_local, new_rc, net, hist, aux>>

\* lines 169-170: a telemetry datagram is stored, then the loop calls
\* recvfrom again
ReceiveState ==
  /\ pc["state"] = "L169"
  /\ sock_state \in {"bound", "closed"}
  /\ \E p \in StatePayloads : drone_state' = p
  /\ Goto("state", NextRecv(sock_state, "L169"))
  /\ UNCHANGED <<should_stop, tello_connected, landed, stream_on, current_rc, send,
                 drone_response, response_event, sock_response, sock_state,
                 stream_thread, last_instruction, cmd, tries, rc_local, new_rc, net,
                 hist, aux>>

\* lines 169, 172-174: the recvfrom in progress raises OSError because the
\* socket was closed; the listener calls close()
ReceiveStateError ==
  /\ pc["state"] = "L169"
  /\ sock_state = "closed"
  /\ Goto("state", "L250")
  /\ UNCHANGED <<prog, cmd, tries, rc_local, new_rc, net, hist, aux>>

----
\* close (lines 240-256)

CloseCall ==
  /\ pc["user"] = "idle"
  /\ Goto("user", "L250")
  /\ UNCHANGED <<prog, cmd, tries, rc_local, new_rc, net, hist, aux>>

\* close() returns: to the caller, or to a listener, which breaks out of its loop
AfterClose(t) == IF t = "user" THEN "idle" ELSE "dead"

\* a fault: close() does not test the connection flag
CloseAlways == TRUE

\* line 250: if self._tello_connected
CloseNeeded == tello_connected

\* line 250: if self._tello_connected; else line 256 and return
CloseTest(t) ==
  /\ pc[t] = "L250"
  /\ IF CloseNeeded
       THEN Goto(t, "L251")
       ELSE Goto(t, AfterClose(t))
  /\ UNCHANGED <<prog, cmd, tries, rc_local, new_rc, net, initRet, okAttempt, cmdSent,
                 lastSent, resent, outcome, halted, fresh, wasClosed, aux>>

\* line 251: self._socket_receive_response.close()
CloseResponseSocket(t) ==
  /\ pc[t] = "L251"
  /\ sock_response' = "closed"
  /\ Goto(t, "L252")
  /\ UNCHANGED <<should_stop, tello_connected, landed, stream_on, current_rc, send,
                 drone_response, response_event, drone_state, sock_state,
                 stream_thread, cmd, tries, rc_local, new_rc, net, hist, last_instruction, aux>>

\* line 252: self._socket_receive_state.close()
CloseStateSocket(t) ==
  /\ pc[t] = "L252"
  /\ sock_state' = "closed"
  /\ Goto(t, "L253")
  /\ UNCHANGED <<should_stop, tello_connected, landed, stream_on, current_rc, send,
                 drone_response, response_event, drone_state, sock_response,
                 stream_thread, cmd, tries, rc_local, new_rc, net, hist, last_instruction, aux>>

\* lines 253-254: self._tello_connected = False, and return
CloseDisconnect(t) ==
  /\ pc[t] = "L253"
  /\ tello_connected' = FALSE
  /\ wasClosed' = TRUE
  /\ Goto(t, AfterClose(t))
  /\ UNCHANGED <<should_stop, landed, stream_on, current_rc, send, drone_response,
                 response_event, drone_state, sock_response, sock_state,
                 stream_thread, cmd, tries, rc_local, new_rc, net, initRet, okAttempt,
                 cmdSent, lastSent, resent, outcome, halted, last_instruction, fresh, aux>>

----
\* the drone never answers a command it was sent, or the answer is lost
DroneSilent ==
  /\ owed > 0
  /\ owed' = owed - 1
  /\ UNCHANGED <<prog, ctl, hist, aux>>

----
Next ==
  \/ InitializeCall \/ BindResponse \/ BindState \/ StartResponseThread
  \/ HandshakeLoop \/ SetConnected \/ StartStateThread \/ StartSenderThread
  \/ ReturnTrue \/ ReturnFalse
  \/ \E t \in Senders :
       \/ ClearEvent(t) \/ SendCommand(t) \/ WaitSet(t) \/ WaitTimeout(t)
       \/ CheckOk(t) \/ CheckError(t)
       \/ HaltStop(t) \/ HaltRc(t) \/ HaltFlag(t) \/ HaltReturn(t)
  \/ HaltCall
  \/ RequestCall \/ Request \/ StreamOnCall \/ StreamOnRaise \/ SetRcCall \/ SetRc
  \/ LoopTop \/ ReadRc \/ SendRc \/ TestFlag \/ SetMode \/ ResetFlag
  \/ Receive \/ SetEvent \/ ReceiveError
  \/ ReceiveState \/ ReceiveStateError
  \/ CloseCall
  \/ \E t \in Closers :
       \/ CloseTest(t) \/ CloseResponseSocket(t) \/ CloseStateSocket(t)
       \/ CloseDisconnect(t)
  \/ DroneSilent

\* the connector as main.py drives it: one initialize(), then requests,
\* halt() and close(), over a transport that fails only once closed
Spec == Init /\ [][Next]_vars

----
\* The program's own steps are taken whenever they can be: a thread that is
\* not blocked runs on, and wait() returns when the event is set or the
\* timeout expires.  What the caller calls, what the drone sends and whether
\* a recvfrom in progress on a closed socket raises are not the program's.
SenderStep ==
  \/ LoopTop \/ ReadRc \/ SendRc \/ TestFlag \/ SetMode \/ ResetFlag
  \/ ClearEvent("sender") \/ SendCommand("sender") \/ WaitSet("sender")
  \/ WaitTimeout("sender") \/ CheckOk("sender") \/ CheckError("sender")
  \/ HaltStop("sender") \/ HaltRc("sender") \/ HaltFlag("sender")
  \/ HaltReturn("sender")

UserStep ==
  \/ BindResponse \/ BindState \/ StartResponseThread \/ HandshakeLoop
  \/ SetConnected \/ StartStateThread \/ StartSenderThread \/ ReturnTrue
  \/ ReturnFalse
  \/ ClearEvent("user") \/ SendCommand("user") \/ WaitSet("user")
  \/ WaitTimeout("user") \/ CheckOk("user") \/ CheckError("user")
  \/ HaltStop("user") \/ HaltRc("user") \/ HaltFlag("user") \/ HaltReturn("user")
  \/ Request \/ StreamOnRaise \/ SetRc
  \/ CloseTest("user") \/ CloseResponseSocket("user") \/ CloseStateSocket("user")
  \/ CloseDisconnect("user")

ListenerStep ==
  \/ SetEvent
  \/ \E t \in {"resp", "state"} :
       \/ CloseTest(t) \/ CloseResponseSocket(t) \/ CloseStateSocket(t)
       \/ CloseDisconnect(t)

FairSpec ==
  Spec /\ WF_vars(SenderStep) /\ WF_vars(UserStep) /\ WF_vars(ListenerStep)

----
\* the caller also uses send_instruction (main.py:81); it writes
\* _last_instruction only, which no step of Next reads
NextCalls == Next \/ SendInstructionCall \/ SendInstruction

SpecCalls == Init /\ [][NextCalls]_vars

----
\* a transport that fails: a recvfrom on an open socket raises OSError
\* (lines 159 and 172), and the listener calls close()
ReadFault ==
  \/ /\ pc["resp"] = "L154" /\ sock_response = "bound"
     /\ Goto("resp", "L250")
     /\ UNCHANGED <<prog, cmd, tries, rc_local, new_rc, net, hist, aux>>
  \/ /\ pc["state"] = "L169" /\ sock_state = "bound"
     /\ Goto("state", "L250")
     /\ UNCHANGED <<prog, cmd, tries, rc_local, new_rc, net, hist, aux>>

NextFaulty == Next \/ ReadFault

SpecFaulty == Init /\ [][NextFaulty]_vars

----
\* the caller calls initialize() again on the same instance, after an
\* initialize() that returned and when no thread of the instance is left
InitializeAgain ==
  /\ pc["user"] = "idle" /\ initRet \in {"true", "false"}
  /\ \A t \in {"resp", "state", "sender"} : pc[t] \in {"none", "dead"}
  /\ initRet' = "running"
  /\ Goto("user", "L116")
  /\ UNCHANGED <<prog, cmd, tries, rc_local, new_rc, net, okAttempt, cmdSent,
                 lastSent, resent, outcome, halted, fresh, wasClosed, aux>>

NextReuse == Next \/ InitializeAgain

SpecReuse == Init /\ [][NextReuse]_vars

----
\* Steps and positions the properties speak about

\* the dispatcher transmits an rc datagram (line 376)
RcTransmit == pc["sender"] = "L376" /\ pc'["sender"] = "L292"
\* the dispatcher transmits a discrete command (line 359)
DiscreteTransmit == pc["sender"] = "L359" /\ pc'["sender"] = "L361"
\* the lines of halt()
HaltLines == {"L267", "L268", "L269", "L270", "L271", "L272"}
\* the caller is inside a request, at its test of _should_stop
RequestLines == {"L330", "L335", "L345", "L350"}
\* the dispatcher's last wait ended without "ok"
Failed == {"timeout", "error", "other"}
\* the dispatcher is calling, or about to call again, _send_command; or its
\* sendto failed on the closed socket
Resending ==
  \/ pc["sender"] \in {"L356", "L359"}
  \/ pc["sender"] = "dead" /\ sock_response = "closed"
\* the state halt() establishes
HaltState ==
  /\ current_rc = Neutral
  /\ send = [k \in KindSet |-> k = land]

----
----
\* C2: once halt() has been entered, every rc datagram the dispatcher
\* transmits is "rc 0 0 0 0", and a request (_takeoff, _land, _stream_off,
\* _set_rc; _stream_on raises) that the caller completes changes neither a
\* pending flag nor the control vector.
C2_AfterHalt ==
  [][ halted =>
        /\ RcTransmit => lastSent' = Neutral
        /\ (pc["user"] \in RequestLines \cup {"TypeError"} /\ pc'["user"] = "idle")
             => (send' = send /\ current_rc' = current_rc)
    ]_vars

\* C2 witness: after a halt whose land was acknowledged and cleared, the
\* dispatcher has just transmitted an rc and the caller is inside _takeoff
C2_Witness ==
  /\ halted /\ ~send[land] /\ ~send[takeoff]
  /\ pc["sender"] = "L292" /\ lastSent = Neutral
  /\ pc["user"] = "L330"

----
\* C3 (as claimed): halt() is atomic: no state shows Land set by a halt in
\* progress while Takeoff, StreamOn or StreamOff still is set or the control
\* vector is not neutral, and when halt() returns the state is exactly:
\* control vector neutral, Land set, the other three flags clear.
C3_HaltAtomic ==
  /\ [](\A t \in Senders :
          pc[t] \in {"L270", "L271", "L272"}
            => (current_rc = Neutral /\ ~send[takeoff] /\ ~send[streamon]
                /\ ~send[streamoff]))
  /\ [][\A t \in Senders :
          (pc[t] = "L272" /\ pc'[t] # "L272") => HaltState']_vars

\* C3 witness of the scenario: the caller's halt() is at its last assignment
\* while the dispatcher is running
C3_Witness == pc["user"] = "L272" /\ pc["sender"] \notin {"none", "dead"}

----
----
----
----
\* the lines of initialize after its _send_command returned True
SuccessLines == {"L133", "L134", "L137", "L140"}
\* a socket could not be created or bound
BindFailed == sock_response = "unbound" \/ sock_state = "unbound"

\* C8: when the k-th handshake attempt (1 <= k <= InitAttempts) is answered
\* "ok", initialize has transmitted exactly k handshake tokens and transmits
\* no more, sets _tello_connected, starts the telemetry listener and the
\* dispatcher and returns True; after it returned True the connection is
\* connected unless a close() has closed the sockets since.
C8_HandshakeSucceeds ==
  /\ okAttempt # 0 =>
       /\ okAttempt \in 1..InitAttempts
       /\ cmdSent = okAttempt
       /\ pc["user"] \in SuccessLines
       /\ initRet = "running"
  /\ pc["user"] = "L140" =>
       /\ okAttempt # 0
       /\ tello_connected
       /\ pc["state"] # "none" /\ pc["sender"] # "none"
  /\ initRet = "true" =>
       /\ stream_thread /\ pc["state"] # "none" /\ pc["sender"] # "none"
       /\ tello_connected \/ sock_response = "closed"
       /\ cmdSent = 0 /\ pc["user"] \notin SuccessLines

\* C8 witness: the second of three attempts was answered "ok"; initialize has
\* started both threads and is about to return True
C8_Witness ==
  /\ okAttempt = 2 /\ okAttempt < InitAttempts /\ cmdSent = 2
  /\ pc["user"] = "L140" /\ tello_connected
  /\ pc["state"] = "L169" /\ pc["sender"] # "none"

----
\* C9 (as claimed): when no attempt is answered "ok", initialize transmits
\* the handshake token exactly InitAttempts times and returns False, and then
\* the connection is not connected, both sockets are released and no
\* listener or dispatcher is alive.
C9_FailureReleasesAll ==
  /\ (pc["user"] = "L146" /\ ~BindFailed) => cmdSent = InitAttempts
  /\ (initRet = "false" /\ ~BindFailed) =>
       /\ ~tello_connected
       /\ sock_response \in {"none", "closed"} /\ sock_state \in {"none", "closed"}
       /\ \A t \in {"resp", "state", "sender"} : pc[t] \in {"none", "dead"}

\* C9 witness of the scenario: every attempt was made, none was answered
\* "ok", initialize is about to return False
C9_Witness ==
  pc["user"] = "L146" /\ cmdSent = InitAttempts /\ okAttempt = 0 /\ ~BindFailed

----
\* C10: when the response socket or the state socket cannot be bound,
\* initialize goes straight to its return of False: no handshake token is
\* transmitted, _tello_connected stays false and no thread is started.
C10_BindFailureIsFatal ==
  BindFailed =>
    /\ initRet \in {"running", "false"}
    /\ initRet = "running" => pc["user"] = "L146"
    /\ cmdSent = 0 /\ tries = 0 /\ lastSent = <<"none">>
    /\ ~tello_connected /\ ~stream_thread
    /\ \A t \in {"resp", "state", "sender"} : pc[t] = "none"

\* C10 witness: the response socket was bound, the state socket was not, and
\* initialize has returned False
C10_Witness ==
  sock_response = "bound" /\ sock_state = "unbound" /\ initRet = "false"

----
\* C11 (as claimed): when _send_command examines _drone_response (line 362),
\* the payload was stored after this call cleared the event (line 356), in
\* every interleaving of the listener and the sending thread.
C11_NoStaleAck == \A t \in Senders : pc[t] = "L362" => fresh

\* C11 witness of the scenario: the wait returned although no payload was
\* stored since the event was cleared, and the payload examined is "ok"
C11_Witness ==
  pc["sender"] = "L362" /\ ~fresh /\ drone_response = "ok" /\ cmd["sender"] = land

----
\* the connection is connected and no halt() was entered
Connected == tello_connected /\ ~halted
\* the connection was closed
Closed == ~tello_connected /\ sock_response = "closed" /\ sock_state = "closed"
\* the caller returns from _takeoff, _land, _stream_off, _set_rc, the raising
\* _stream_on, or send_instruction
CallReturns ==
  /\ pc["user"] \in RequestLines \cup {"TypeError", "L200"}
  /\ pc'["user"] = "idle"

\* C12 (as claimed): while connected and before any halt(), _takeoff, _land
\* and _stream_off set the pending flag of their command (so if_idle() is
\* false), and _stream_on returns normally having set its flag.
C12_RequestsAccepted ==
  [][ Connected =>
        /\ \A k \in {takeoff, land, streamoff} :
             (pc["user"] = RequestLine(k) /\ pc'["user"] = "idle") => send'[k]
        /\ (pc["user"] = "TypeError" /\ pc'["user"] = "idle") => send'[streamon]
    ]_vars

\* C12 witness of the scenario: connected, no halt, the caller is in _takeoff
C12_Witness == Connected /\ pc["user"] = "L330" /\ pc["sender"] = "L376"

----
\* C13 (as claimed): the dispatcher transmits the vector of the last _set_rc
\* completed while connected: when such a call returns, its vector is the
\* one line 375 reads from then on, and the datagram of line 376 carries the
\* vector line 375 read.
C13_LatestVectorSent ==
  [][ /\ (Connected /\ pc["user"] = "L350" /\ pc'["user"] = "idle")
           => current_rc' = new_rc
      /\ RcTransmit => lastSent' = rc_local
    ]_vars

\* C13 witness of the scenario: connected, the caller is in _set_rc with a
\* vector that is not neutral while the dispatcher is about to read the vector
C13_Witness ==
  Connected /\ pc["user"] = "L350" /\ new_rc # Neutral /\ pc["sender"] = "L375"

----
\* C14 (as claimed): when the connection is not connected, or halt() was
\* entered, a call of _takeoff, _land, _stream_on, _stream_off, _set_rc or
\* send_instruction returns with every field of the connector as it was.
C14_RejectedChangesNothing ==
  [][(~Connected /\ CallReturns) => UNCHANGED prog]_vars

\* C14 witness of the scenario: send_instruction is called on a connector
\* that was never initialized
C14_Witness == pc["user"] = "L200" /\ initRet = "none" /\ ~tello_connected

----
\* C15 (as claimed): a close() that found the connection connected returns
\* with both sockets closed; once the connection is closed no datagram is
\* transmitted; and then the response listener, the telemetry listener and
\* the dispatcher all terminate.
C15_CloseStopsAll ==
  /\ [][(pc["user"] = "L253" /\ pc'["user"] = "idle") => Closed']_vars
  /\ [][Closed => ~(RcTransmit \/ DiscreteTransmit)]_vars
  /\ Closed ~> (\A t \in {"resp", "state", "sender"} : pc[t] = "dead")

\* C15 witness of the scenario: close() has returned to the caller, the
\* dispatcher has ended, and the response listener still is in the recvfrom
\* it called before the socket was closed
C15_Witness ==
  Closed /\ pc["user"] = "idle" /\ pc["sender"] = "dead" /\ pc["resp"] = "L154"

----
\* C16 (as claimed): a listener that met a read error has called close() and
\* ended, and then both sockets are closed, whatever the state in which the
\* error occurred.
C16_ReadErrorCloses ==
  \A t \in {"resp", "state"} :
    pc[t] = "dead" => (sock_response = "closed" /\ sock_state = "closed")

\* C16 witness of the scenario: the response listener ended on a read error
\* during the handshake
C16_Witness == pc["resp"] = "dead" /\ initRet = "running" /\ ~tello_connected

----
\* C17: a close() that finds the connection not connected (closed already, in
\* particular) returns at once and changes no field, whichever thread calls it.
C17_CloseIdempotent ==
  [][\A t \in Closers :
       (pc[t] = "L250" /\ ~tello_connected /\ pc'[t] # pc[t])
         => (pc'[t] = AfterClose(t) /\ UNCHANGED prog)]_vars

\* C17 witness: the caller's close() has closed the connection, and the
\* response listener, which saw its socket closed, calls close() again
C17_Witness == Closed /\ pc["resp"] = "L250" /\ pc["user"] = "idle"

----
\* initialize() has bound both sockets and is attempting the handshake
Handshaking ==
  /\ initRet = "running" /\ ~tello_connected
  /\ sock_response = "bound" /\ sock_state = "bound"

\* C18 (as claimed): once a close() has closed the connection, the instance
\* is never handshaking or connected again, whatever is called on it.
C18_ClosedIsTerminal == wasClosed => ~(Handshaking \/ tello_connected)

\* C18 witness of the scenario: initialize() is running again on an instance
\* that was closed
C18_Witness == wasClosed /\ Closed /\ initRet = "running" /\ pc["user"] = "L116"

----
\* the dispatcher's `self._landed = ...` and `self._stream_on = ...` lines
ModeLines == {ModeLine(k) : k \in KindSet}

\* C20 (as claimed): the dispatcher goes on to a mode bit and a flag reset of
\* kind k only when the payload is "ok", the datagram waited for was k, and
\* the payload was stored during the wait of this _send_command (or, read
\* generously, at least after an earlier transmission of k in this cycle);
\* the mode bit is updated as the kind says; the reset clears the flag of k
\* and no other.
C20_ClearOnlyOnOwnOk ==
  [][ /\ (pc["sender"] = "L362" /\ pc'["sender"] \in ModeLines)
           => /\ IsOk(drone_response) /\ (fresh \/ resent)
              /\ lastSent = <<cmd["sender"]>>
              /\ pc'["sender"] = ModeLine(cmd["sender"])
      /\ \A k \in KindSet :
           /\ (pc["sender"] = ModeLine(k) /\ pc'["sender"] # ModeLine(k))
                => /\ k = land => landed'
                   /\ k = takeoff => ~landed'
                   /\ k = streamon => stream_on'
                   /\ k = streamoff => ~stream_on'
           /\ (pc["sender"] = ResetLine(k) /\ pc'["sender"] # ResetLine(k))
                => send' = [send EXCEPT ![k] = FALSE]
    ]_vars

\* C20 witness of the scenario: the dispatcher is about to clear Land after a
\* _send_command(land) that returned True
C20_Witness ==
  pc["sender"] = "L298" /\ outcome = "ok" /\ lastSent = <<land>> /\ send[land]

----
\* Datagrams whose bytes are not text.  The listeners decode every datagram
\* (lines 155 and 170) inside a try that catches OSError only.

\* datagrams, as the sequence of their bytes
Garbled == {<<255, 254>>, <<80, 195>>}

\* bytes.decode("ASCII") (line 170): every byte must be below 128
AsciiDecodable(data) == \A i \in 1..Len(data) : data[i] < 128

\* length of the UTF-8 sequence a lead byte announces, 0 for a byte that
\* cannot lead
Utf8Length(b) ==
  IF b < 128 THEN 1
  ELSE IF b \in 194..223 THEN 2
  ELSE IF b \in 224..239 THEN 3
  ELSE IF b \in 240..244 THEN 4
  ELSE 0

\* bytes.decode(encoding="utf-8") (line 155) from byte i on: lead bytes and
\* the number and range of their continuation bytes
RECURSIVE Utf8From(_, _)
Utf8From(data, i) ==
  IF i > Len(data) THEN TRUE
  ELSE LET n == Utf8Length(data[i]) IN
       /\ n > 0
       /\ i + n - 1 <= Len(data)
       /\ \A j \in (i + 1)..(i + n - 1) : data[j] \in 128..191
       /\ Utf8From(data, i + n)

Utf8Decodable(data) == Utf8From(data, 1)

\* lines 154-155: the drone's answer is not UTF-8; decode raises
\* UnicodeDecodeError, which `except OSError` does not catch: the thread ends
ReceiveGarbled ==
  /\ pc["resp"] = "L154"
  /\ sock_response \in {"bound", "closed"}
  /\ owed > 0
  /\ owed' = owed - 1
  /\ \E data \in Garbled : ~Utf8Decodable(data)
  /\ Goto("resp", "dead")
  /\ UNCHANGED <<prog, cmd, tries, rc_local, new_rc, hist, aux>>

\* lines 169-170: a telemetry datagram is not ASCII; decode raises
\* UnicodeDecodeError, which `except OSError` does not catch: the thread ends
ReceiveStateGarbled ==
  /\ pc["state"] = "L169"
  /\ sock_state \in {"bound", "closed"}
  /\ \E data \in Garbled : ~AsciiDecodable(data)
  /\ Goto("state", "dead")
  /\ UNCHANGED <<prog, cmd, tries, rc_local, new_rc, net, hist, aux>>

NextGarbled == Next \/ ReceiveGarbled \/ ReceiveStateGarbled

\* the connector over a transport that also delivers datagrams that are not
\* text
SpecGarbled == Init /\ [][NextGarbled]_vars

----
\* C21 (as claimed): no content of a datagram ends a listener: a listener
\* that has terminated has its socket closed (it ended by a transport error
\* or by close()).
C21_ListenersOutliveContent ==
  /\ pc["resp"] = "dead" => sock_response = "closed"
  /\ pc["state"] = "dead" => sock_state = "closed"

\* C21 witness of the scenario: the telemetry listener has ended on a
\* connected connection whose telemetry socket is open
C21_Witness ==
  pc["state"] = "dead" /\ sock_state = "bound" /\ tello_connected /\ ~halted

----
\* Text.  A str is the sequence of its characters; a number is written and
\* read digit by digit, as str(), int() and float() do.

Digits == <<"0", "1", "2", "3", "4", "5", "6", "7", "8", "9">>
IsDigit(c) == \E d \in 1..Len(Digits) : Digits[d] = c
DigitValue(c) == (CHOOSE d \in 1..Len(Digits) : Digits[d] = c) - 1

\* str(n) for n >= 0
RECURSIVE Decimal(_)
Decimal(n) ==
  IF n < Len(Digits) THEN <<Digits[n + 1]>>
  ELSE Decimal(n \div Len(Digits)) \o <<Digits[(n % Len(Digits)) + 1]>>

\* str(n) of an int, which is how an f-string formats {n}
str(n) == IF n < 0 THEN <<"-">> \o Decimal(-n) ELSE Decimal(n)

\* "".join of a sequence of texts
RECURSIVE Concat(_)
Concat(texts) ==
  IF texts = <<>> THEN <<>> ELSE Head(texts) \o Concat(Tail(texts))

\* text.split(sep) for a one-character sep: the parts between the
\* occurrences of sep, empty parts included
RECURSIVE Split(_, _)
Split(text, sep) ==
  IF \A i \in 1..Len(text) : text[i] # sep THEN <<text>>
  ELSE LET k == CHOOSE i \in 1..Len(text) :
                  text[i] = sep /\ \A j \in 1..(i - 1) : text[j] # sep
       IN <<SubSeq(text, 1, k - 1)>> \o Split(SubSeq(text, k + 1, Len(text)), sep)

\* the whitespace int() and float() ignore around a number
Whitespace == {" ", "\t", "\n", "\r"}

Strip(text) ==
  LET solid == {i \in 1..Len(text) : text[i] \notin Whitespace} IN
  IF solid = {} THEN <<>>
  ELSE SubSeq(text, CHOOSE i \in solid : \A j \in solid : i <= j,
                    CHOOSE i \in solid : \A j \in solid : i >= j)

\* str.lower() on the letters that spell inf, infinity, nan and the exponent
Lower(c) ==
  CASE c = "I" -> "i" [] c = "N" -> "n" [] c = "F" -> "f" [] c = "T" -> "t"
    [] c = "Y" -> "y" [] c = "A" -> "a" [] c = "E" -> "e" [] OTHER -> c

\* digits, with single underscores allowed between two digits
DigitRun(text) ==
  /\ Len(text) > 0
  /\ IsDigit(text[1]) /\ IsDigit(text[Len(text)])
  /\ \A i \in 1..Len(text) : IsDigit(text[i]) \/ text[i] = "_"
  /\ \A i \in 1..(Len(text) - 1) : ~(text[i] = "_" /\ text[i + 1] = "_")

\* the digits of a run, underscores dropped
DigitsOf(text) == SelectSeq(text, IsDigit)

\* the number a sequence of digits denotes
RECURSIVE Value(_)
Value(digits) ==
  IF digits = <<>> THEN 0
  ELSE Len(Digits) * Value(SubSeq(digits, 1, Len(digits) - 1))
         + DigitValue(digits[Len(digits)])

Signed(text) == Len(text) > 0 /\ text[1] \in {"+", "-"}
Unsigned(text) == IF Signed(text) THEN Tail(text) ELSE text
Sign(text) == IF Len(text) > 0 /\ text[1] = "-" THEN -1 ELSE 1

\* the exceptions the decoding raises
ValueError == <<"ValueError">>
IndexError == <<"IndexError">>
AttributeError == <<"AttributeError">>
Raised(r) == r \in {ValueError, IndexError, AttributeError}

\* a fault: int reads the digits wherever they stand and refuses nothing
int_lenient(text) ==
  <<"int", Sign(Strip(text)) * Value(DigitsOf(Unsigned(Strip(text))))>>

\* int(text): surrounding whitespace, a sign, decimal digits
int(text) ==
  LET s == Strip(text)
      u == Unsigned(s)
  IN IF DigitRun(u) THEN <<"int", Sign(s) * Value(DigitsOf(u))>> ELSE ValueError

\* a float m * 10^(-scale), written without trailing zeros, so that two
\* floats are equal iff they are written the same (up to the 15 significant
\* digits a double tells apart)
RECURSIVE Float(_, _)
Float(m, scale) ==
  IF m = 0 THEN <<"float", 0, 0>>
  ELSE IF scale < 0 THEN Float(m * Len(Digits), scale + 1)
  ELSE IF scale > 0 /\ m % Len(Digits) = 0 THEN Float(m \div Len(Digits), scale - 1)
  ELSE <<"float", m, scale>>

\* float(text): surrounding whitespace, a sign, then inf, infinity or nan, or
\* digits with at most one point and an optional exponent
float(text) ==
  LET s == Strip(text)
      u == [i \in 1..Len(Unsigned(s)) |-> Lower(Unsigned(s)[i])]
      parts == Split(u, "e")
      mantissa == Split(parts[1], ".")
      whole == mantissa[1]
      fraction == IF Len(mantissa) = 2 THEN mantissa[2] ELSE <<>>
      exponent == IF Len(parts) = 2 THEN parts[2] ELSE <<"0">>
  IN IF u \in {<<"i", "n", "f">>, <<"i", "n", "f", "i", "n", "i", "t", "y">>}
       THEN <<"inf", Sign(s)>>
     ELSE IF u = <<"n", "a", "n">> THEN <<"nan">>
     ELSE IF /\ Len(parts) <= 2 /\ Len(mantissa) <= 2
             /\ whole = <<>> \/ DigitRun(whole)
             /\ fraction = <<>> \/ DigitRun(fraction)
             /\ whole # <<>> \/ fraction # <<>>
             /\ DigitRun(Unsigned(exponent))
       THEN Float(Sign(s) * Value(DigitsOf(whole) \o DigitsOf(fraction)),
                  Len(DigitsOf(fraction))
                    - Sign(exponent) * Value(DigitsOf(Unsigned(exponent))))
     ELSE ValueError

----
\* drones/common/drone_state.py

\* the fields of DroneState, in the order __init__ assigns them (lines 34-49)
Fields ==
  <<"pitch", "roll", "yaw", "vgx", "vgy", "vgz", "templ", "temph", "tof", "h",
    "bat", "baro", "time", "agx", "agy", "agz">>
\* a fault: the barometer is converted with int()
FloatFieldsNoBaro == {"agx", "agy", "agz"}
\* the fields __init__ converts with float(); the others with int()
FloatFields == {"baro", "agx", "agy", "agz"}

\* state_list[i - 1].split(":")[1] converted to the type of field i; an
\* index out of range raises IndexError
FieldValue(state_list, i) ==
  IF i > Len(state_list) THEN IndexError
  ELSE LET parts == Split(state_list[i], ":") IN
       IF Len(parts) < 2 THEN IndexError
       ELSE IF Fields[i] \in FloatFields THEN float(parts[2])
       ELSE int(parts[2])

\* DroneState(state_str) (lines 27-49): the object, as the tuple of its 16
\* fields; or the exception of the first assignment that raises
DroneState(state_str) ==
  LET state_list == Split(state_str, ";")
      values == [i \in 1..Len(Fields) |-> FieldValue(state_list, i)]
      raising == {i \in 1..Len(Fields) : Raised(values[i])}
  IN IF raising = {} THEN <<"DroneState", values>>
     ELSE values[CHOOSE i \in raising : \A j \in raising : i <= j]

----
\* Telemetry text

\* the labels of the Tello's report, character by character
Labels ==
  <<<<"p", "i", "t", "c", "h">>,
    <<"r", "o", "l", "l">>,
    <<"y", "a", "w">>,
    <<"v", "g", "x">>,
    <<"v", "g", "y">>,
    <<"v", "g", "z">>,
    <<"t", "e", "m", "p", "l">>,
    <<"t", "e", "m", "p", "h">>,
    <<"t", "o", "f">>,
    <<"h">>,
    <<"b", "a", "t">>,
    <<"b", "a", "r", "o">>,
    <<"t", "i", "m", "e">>,
    <<"a", "g", "x">>,
    <<"a", "g", "y">>,
    <<"a", "g", "z">>>>

\* the values of the report above
ExampleValues ==
  <<<<"0">>, <<"1">>, <<"2">>, <<"3">>,
    <<"4">>, <<"5">>, <<"6">>, <<"7">>,
    <<"8">>, <<"9">>, <<"1", "0">>, <<"1", "1", ".", "5">>,
    <<"1", "2">>, <<"1", "3", ".", "1">>, <<"1", "4", ".", "2">>, <<"1", "5", ".", "3">>>>

\* a report: n fields label, colon, value, joined by semicolon
RECURSIVE Report(_, _, _, _, _)
Report(labels, values, colon, semicolon, n) ==
  IF n = 0 THEN <<>>
  ELSE (IF n = 1 THEN <<>>
        ELSE Report(labels, values, colon, semicolon, n - 1) \o semicolon)
       \o labels[n] \o colon \o values[n]

\* the characters of a telemetry datagram, which data.decode("ASCII")
\* (line 170) stores in self._state
StateText(p) == Report(Labels, ExampleValues, <<":">>, <<";">>, Len(Fields))

----
\* get_state (lines 216-226)

GetStateCall ==
  /\ pc["user"] = "idle"
  /\ Goto("user", "L226")
  /\ UNCHANGED <<prog, cmd, tries, rc_local, new_rc, net, hist, aux>>

\* line 226: DroneState(self._state); self._state exists only once a
\* telemetry datagram was stored (line 170; __init__ creates _drone_state)
GetState ==
  /\ pc["user"] = "L226"
  /\ output' = IF drone_state = "unset" THEN AttributeError
               ELSE DroneState(StateText(drone_state))
  /\ Goto("user", "L226ret")
  /\ UNCHANGED <<prog, cmd, tries, rc_local, new_rc, net, hist, input, tpl, frames>>

\* the caller has the object, or the exception
GetStateReturn ==
  /\ pc["user"] = "L226ret"
  /\ output' = None
  /\ Goto("user", "idle")
  /\ UNCHANGED <<prog, cmd, tries, rc_local, new_rc, net, hist, input, tpl, frames>>

NextState == Next \/ GetStateCall \/ GetState \/ GetStateReturn

\* the connector with a caller that also reads the telemetry
SpecState == Init /\ [][NextState]_vars

----
\* C22 (as claimed): get_state called after initialize() returned True
\* returns the absent value when no telemetry datagram was received yet, and
\* otherwise the DroneState decoded from the datagram received last.
C22_TelemetryOrAbsent ==
  [][(pc["user"] = "L226" /\ pc'["user"] = "L226ret" /\ initRet = "true")
       => output' = IF drone_state = "unset" THEN None
                    ELSE DroneState(StateText(drone_state))]_vars

\* C22 witness of the scenario: get_state was called after initialize()
\* returned True and before any telemetry datagram
C22_Witness ==
  /\ pc["user"] = "L226ret" /\ initRet = "true" /\ drone_state = "unset"
  /\ output = AttributeError

----
\* if_idle (lines 228-238)

\* a fault: the pending landing is not counted
IfIdleNoLand == ~(send_stream_off \/ send_stream_on \/ send_takeoff)

\* line 238: not (_send_stream_off or _send_stream_on or _send_land or
\* _send_takeoff)
if_idle == ~(send_stream_off \/ send_stream_on \/ send_land \/ send_takeoff)

\* the caller calls if_idle(), which evaluates line 238
IfIdle ==
  /\ pc["user"] = "idle"
  /\ output' = <<"bool", if_idle>>
  /\ Goto("user", "L238ret")
  /\ UNCHANGED <<prog, cmd, tries, rc_local, new_rc, net, hist, input, tpl, frames>>

\* the caller has the answer
IfIdleReturn ==
  /\ pc["user"] = "L238ret"
  /\ output' = None
  /\ Goto("user", "idle")
  /\ UNCHANGED <<prog, cmd, tries, rc_local, new_rc, net, hist, input, tpl, frames>>

NextIdle == Next \/ IfIdle \/ IfIdleReturn

\* the connector with a caller that also asks whether it is idle
SpecIdle == Init /\ [][NextIdle]_vars

----
\* C23: if_idle() returns True exactly when none of the four pending flags
\* (takeoff, land, streamon, streamoff) is set in the state it is called in.
C23_IdleIffNoFlag ==
  [][(pc["user"] = "idle" /\ pc'["user"] = "L238ret")
       => output' = <<"bool", \A k \in KindSet : ~send[k]>>]_vars

\* C23 witness: if_idle() answered False while a landing was pending on a
\* connected connection
C23_Witness ==
  /\ pc["user"] = "L238ret" /\ output = <<"bool", FALSE>>
  /\ send[land] /\ tello_connected

----
\* C24: every rc datagram the dispatcher transmits before a _set_rc call has
\* been accepted is "rc 0 0 0 0": the vector starts neutral, and the
\* dispatcher transmits the vector it read.  (No _set_rc call is accepted in
\* any run, so this holds of every rc datagram.)
C24_NeutralByDefault ==
  /\ [][RcTransmit => (lastSent' = rc(0, 0, 0, 0) /\ current_rc = rc(0, 0, 0, 0))]_vars
  /\ [][current_rc' # current_rc => (pc["user"] = "L350" /\ RequestAllowed)]_vars

\* C24 witness: connected, no halt, no _set_rc so far accepted; the
\* dispatcher has just transmitted the vector while the caller is in _set_rc
\* with another one
C24_Witness ==
  /\ Connected /\ pc["sender"] = "L292" /\ lastSent = rc(0, 0, 0, 0)
  /\ pc["user"] = "L350" /\ new_rc # rc(0, 0, 0, 0)

----
\* the handshake of the running or finished initialize() has succeeded
HandshakeDone == okAttempt > 0 \/ initRet = "true"

\* C25: every datagram transmitted is a token of drone_instruction.py, in
\* its phase: "command" is transmitted only by initialize(), before the
\* connection is connected; the dispatcher transmits only after the handshake
\* succeeded, and only rc vectors and the literal tokens "takeoff", "land",
\* "streamon", "streamoff".
C25_TokensInPhase ==
  [][ /\ (pc["user"] = "L359" /\ pc'["user"] = "L361")
           => (cmd["user"] = "command" /\ initRet = "running" /\ ~tello_connected)
      /\ DiscreteTransmit
           => /\ cmd["sender"] \in {"takeoff", "land", "streamon", "streamoff"}
              /\ lastSent' = <<cmd["sender"]>>
              /\ HandshakeDone
      /\ RcTransmit => (lastSent'[1] = "rc" /\ Len(lastSent') = 5 /\ HandshakeDone)
      /\ lastSent' # lastSent => (DiscreteTransmit \/ RcTransmit)
    ]_vars

\* C25 witness: after the handshake's "command" the dispatcher has
\* transmitted "land" and waits for its answer
C25_Witness ==
  /\ pc["sender"] = "L361" /\ lastSent = <<"land">> /\ cmd["sender"] = "land"
  /\ initRet = "true" /\ tello_connected

----
\* drones/common/drone_instruction.py, rc: the text of the datagram

\* a fault: the first two components change places
rc_swapped(left_right, fwd_back, up_down, yaw) ==
  Concat(<<<<"r", "c", " ">>, str(fwd_back), <<" ">>, str(left_right), <<" ">>,
           str(up_down), <<" ">>, str(yaw)>>)

\* f"rc {left_right} {fwd_back} {up_down} {yaw}" (line 61)
rc_text(left_right, fwd_back, up_down, yaw) ==
  Concat(<<<<"r", "c", " ">>, str(left_right), <<" ">>, str(fwd_back), <<" ">>,
           str(up_down), <<" ">>, str(yaw)>>)

\* the reader of an rc datagram: the token rc, then four integers, separated
\* by single spaces; anything else is refused
ParseRc(text) ==
  LET words == Split(text, " ") IN
  IF /\ Len(words) = 5
     /\ words[1] = <<"r", "c">>
     /\ \A i \in 2..5 : ~Raised(int(words[i]))
    THEN [i \in 1..4 |-> int(words[i + 1])[2]]
    ELSE ValueError

\* the arguments of one call of rc: components within [-100, 100]
InitRc ==
  /\ Constructed
  /\ LET Components == {-100, -32, -1, 0, 7, 100}
     IN input \in {<<"rc", a, b, c, d>> : a \in Components, b \in Components,
                                          c \in Components, d \in Components}
  /\ output = None
  /\ tpl = TemplateConstructed
  /\ frames = ProcessesCreated

\* rc(left_right, fwd_back, up_down, yaw) is called
EncodeRc ==
  /\ input[1] = "rc" /\ output = None
  /\ output' = rc_text(input[2], input[3], input[4], input[5])
  /\ UNCHANGED <<input, tpl, frames, prog, ctl, net, hist>>

SpecRc == InitRc /\ [][EncodeRc]_vars

----
\* C26: for components in [-100, 100], rc(left_right, fwd_back, up_down, yaw)
\* is the text "rc", then the four components in decimal, in this order,
\* separated by single spaces; reading it back as four signed integers after
\* the token gives the components rc was called with.
C26_RcRoundTrip ==
  (input[1] = "rc" /\ output # None)
    => /\ ParseRc(output) = <<input[2], input[3], input[4], input[5]>>
       /\ Len(SelectSeq(output, LAMBDA c : c = " ")) = 4

\* C26 witness: a vector with negative, zero and three-digit components was
\* encoded
C26_Witness ==
  /\ input = <<"rc", -100, 0, 7, -32>>
  /\ output = <<"r", "c", " ", "-", "1", "0", "0", " ", "0", " ", "7", " ",
                "-", "3", "2">>

----
\* DroneState on the reports a drone, or anything else, may send

\* a report of a Tello hovering on the ground
HoverValues ==
  <<<<"-", "1">>, <<"0">>, <<"-", "1", "7", "9">>, <<"0">>,
    <<"0">>, <<"0">>, <<"8", "5">>, <<"8", "7">>,
    <<"1", "0">>, <<"0">>, <<"1", "0", "0">>, <<"-", "1", "2", ".", "2", "5">>,
    <<"0">>, <<"-", "3", ".", "0", "0">>, <<"2", ".", "0">>, <<"-", "9", "9", "9", ".", "0", "0">>>>

\* the numbers the two reports are written from
ExampleNumbers ==
  <<<<"int", 0>>, <<"int", 1>>, <<"int", 2>>, <<"int", 3>>,
    <<"int", 4>>, <<"int", 5>>, <<"int", 6>>, <<"int", 7>>,
    <<"int", 8>>, <<"int", 9>>, <<"int", 10>>, <<"float", 115, 1>>,
    <<"int", 12>>, <<"float", 131, 1>>, <<"float", 142, 1>>, <<"float", 153, 1>>>>
HoverNumbers ==
  <<<<"int", -1>>, <<"int", 0>>, <<"int", -179>>, <<"int", 0>>,
    <<"int", 0>>, <<"int", 0>>, <<"int", 85>>, <<"int", 87>>,
    <<"int", 10>>, <<"int", 0>>, <<"int", 100>>, <<"float", -1225, 2>>,
    <<"int", 0>>, <<"float", -3, 0>>, <<"float", 2, 0>>, <<"float", -999, 0>>>>
Numbers(values) == IF values = ExampleValues THEN ExampleNumbers ELSE HoverNumbers

\* other labels: one letter, the same for every field
OtherLabels == [i \in 1..Len(Fields) |-> <<"x">>]

\* a value that is not what its field expects
DefectText(d) ==
  CASE d = "decimal" -> <<"1", ".", "5">>
    [] d = "empty" -> <<>>
    [] d = "word" -> <<"n", "a", "n">>

\* the text of a described report
Payload(in) ==
  LET values == [i \in 1..Len(Fields) |->
                   IF in[6] # "none" /\ i = in[7] THEN DefectText(in[6])
                   ELSE in[4][i]]
  IN Report(in[2], values, <<in[3][1]>>, <<in[3][2]>>, in[5]) \o in[8]

\* a report is described by its labels, what stands between label and value
\* and between two fields, its values, the number of its fields, a defect and
\* the field it stands in, and what follows the last field (nothing, or the
\* Tello's ";\r\n")
InitDecode ==
  /\ Constructed
  /\ input \in {in \in {<<"DroneState", l, d, v, n, x, k, t>> :
                           l \in {Labels, OtherLabels},
                           d \in {<<":", ";">>, <<"=", ",">>},
                           v \in {ExampleValues, HoverValues},
                           n \in {0, 1, 5, 12, 15, 16},
                           x \in {"none", "decimal", "empty", "word"},
                           k \in {1, 10, 12, 13, 16},
                           t \in {<<>>, <<";", "\r", "\n">>}} :
                  in[6] = "none" => in[7] = 1}
  /\ output = None
  /\ tpl = TemplateConstructed
  /\ frames = ProcessesCreated

\* DroneState(state_str) is called on the text
Decode ==
  /\ input[1] = "DroneState" /\ output = None
  /\ output' = DroneState(Payload(input))
  /\ UNCHANGED <<input, tpl, frames, prog, ctl, net, hist>>

SpecDecode == InitDecode /\ [][Decode]_vars

----
\* a report was decoded
Decoded == input[1] = "DroneState" /\ output # None
\* the report is written as the code reads it: label:value;label:value...
TelloForm == input[3] = <<":", ";">>
\* the report has all its fields, each with a value its field expects
Complete == input[5] = Len(Fields) /\ input[6] = "none"
\* the defect stands in a field the report has, and the field's conversion
\* refuses it (float() reads "1.5" and "nan", int() does not)
Malformed ==
  /\ input[7] <= input[5]
  /\ \/ input[6] = "empty"
     \/ input[6] \in {"decimal", "word"} /\ Fields[input[7]] \notin FloatFields

----
\* the numeric tokens of a report (digits with a sign and at most one point;
\* the labels hold no digit): one per field, except a field whose value is
\* empty or a word
Tokens ==
  input[5] - (IF input[6] \in {"empty", "word"} /\ input[7] <= input[5]
              THEN 1 ELSE 0)

----
\* drones/connection/connector_template.py (class ConnectorTemplate).  The
\* labels "Tnnn" are line numbers of connector_template.py.  The caller
\* ("user") runs initialize, send_instruction and close; "resp" and "state"
\* are the listeners and "sender" runs _send_commands.

\* everything but the ConnectorTemplate instance
connector == <<prog, ctl, net, hist, input, output, frames>>

\* where _send_command returns to: initialize (line 69) or the loop of
\* _send_commands (line 195)
TemplateReturn(t) == IF t = "user" THEN "T69" ELSE "T195"

\* MovementInstruction.translate (movement_instruction.py:25-60): every
\* append is commented out, the empty sequence is reversed and returned
translate(instruction) == <<>>

\* the caller calls initialize(), once
TemplateInitializeCall ==
  /\ tpl.pc["user"] = "idle" /\ tpl.ret = "none"
  /\ tpl' = [tpl EXCEPT !.pc["user"] = "T58", !.ret = "running"]
  /\ UNCHANGED connector

\* lines 57-63: both sockets are created and bound; or a bind raises OSError,
\* which is logged, and initialize goes to its return statement
TemplateBind ==
  /\ tpl.pc["user"] = "T58"
  /\ \/ tpl' = [tpl EXCEPT !.socket_receive_response = "bound",
                           !.socket_receive_state = "bound",
                           !.pc["user"] = "T65"]
     \/ tpl' = [tpl EXCEPT !.socket_receive_response = "unbound",
                           !.pc["user"] = "T80"]
     \/ tpl' = [tpl EXCEPT !.socket_receive_response = "bound",
                           !.socket_receive_state = "unbound",
                           !.pc["user"] = "T80"]
  /\ UNCHANGED connector

\* lines 65-66: the response listener is started
TemplateStartResponseThread ==
  /\ tpl.pc["user"] = "T65"
  /\ tpl' = [tpl EXCEPT !.pc["user"] = "T67", !.pc["resp"] = "T87"]
  /\ UNCHANGED connector

\* line 67: append((di.command(), 1)); line 68 calls _send_command
TemplateAppendFirst ==
  /\ tpl.pc["user"] = "T67"
  /\ tpl' = [tpl EXCEPT
               !.drone_instruction_stack = Append(@, <<command, 1>>),
               !.pc["user"] = "T206"]
  /\ UNCHANGED connector

\* _send_command, line 206: self._response_event.clear()
TemplateClearResponse(t) ==
  /\ tpl.pc[t] = "T206"
  /\ tpl' = [tpl EXCEPT !.response_event = FALSE, !.pc[t] = "T207"]
  /\ UNCHANGED connector

\* line 207: self._new_instruction_event.clear()
TemplateClearNew(t) ==
  /\ tpl.pc[t] = "T207"
  /\ tpl' = [tpl EXCEPT !.new_instruction_event = FALSE, !.pc[t] = "T208"]
  /\ UNCHANGED connector

\* line 208: command = self._drone_instruction_stack[-1]; on an empty list
\* IndexError ends the thread
TemplateTop(t) ==
  /\ tpl.pc[t] = "T208"
  /\ tpl' = IF tpl.drone_instruction_stack = <<>>
              THEN [tpl EXCEPT !.pc[t] = "IndexError"]
              ELSE [tpl EXCEPT
                      !.command[t] = tpl.drone_instruction_stack[Len(tpl.drone_instruction_stack)],
                      !.pc[t] = "T210"]
  /\ UNCHANGED connector

\* lines 210-212: sendto(command[0]); on a closed socket OSError ends the
\* thread
TemplateSend(t) ==
  /\ tpl.pc[t] = "T210"
  /\ tpl' = IF tpl.socket_receive_response = "closed"
              THEN [tpl EXCEPT !.pc[t] = "OSError"]
              ELSE [tpl EXCEPT !.owed = Min(@ + 1, MaxInFlight), !.pc[t] = "T214"]
  /\ UNCHANGED connector

\* line 214: wait(timeout=4) returns True, the event is set
TemplateWaitSet(t) ==
  /\ tpl.pc[t] = "T214" /\ tpl.response_event
  /\ tpl' = [tpl EXCEPT !.pc[t] = "T214r"]
  /\ UNCHANGED connector

\* line 214: wait(timeout=4) timed out; _send_command returns
TemplateWaitTimeout(t) ==
  /\ tpl.pc[t] = "T214" /\ ~tpl.response_event
  /\ tpl' = [tpl EXCEPT !.pc[t] = TemplateReturn(t)]
  /\ UNCHANGED connector

\* line 214: ... and self._drone_response == "ok"
TemplateCheckOk(t) ==
  /\ tpl.pc[t] = "T214r"
  /\ tpl' = [tpl EXCEPT !.pc[t] = IF IsOk(tpl.drone_response) THEN "T215"
                                  ELSE TemplateReturn(t)]
  /\ UNCHANGED connector

\* line 215: if not self._new_instruction_event.isSet()
TemplateTestNew(t) ==
  /\ tpl.pc[t] = "T215"
  /\ tpl' = [tpl EXCEPT !.pc[t] = IF tpl.new_instruction_event THEN TemplateReturn(t)
                                  ELSE "T216"]
  /\ UNCHANGED connector

\* line 216: self._drone_instruction_stack.pop(); on an empty list
\* IndexError ends the thread
TemplatePop(t) ==
  /\ tpl.pc[t] = "T216"
  /\ tpl' = IF tpl.drone_instruction_stack = <<>>
              THEN [tpl EXCEPT !.pc[t] = "IndexError"]
              ELSE [tpl EXCEPT
                      !.drone_instruction_stack = SubSeq(@, 1, Len(@) - 1),
                      !.pc[t] = TemplateReturn(t)]
  /\ UNCHANGED connector

\* line 69: self._response_event.wait(timeout=3) returns True
TemplateInitWaitSet ==
  /\ tpl.pc["user"] = "T69" /\ tpl.response_event
  /\ tpl' = [tpl EXCEPT !.pc["user"] = "T69r"]
  /\ UNCHANGED connector

\* lines 69, 77-78: the wait timed out, "Connecting failed" is logged
TemplateInitWaitTimeout ==
  /\ tpl.pc["user"] = "T69" /\ ~tpl.response_event
  /\ tpl' = [tpl EXCEPT !.pc["user"] = "T80"]
  /\ UNCHANGED connector

\* line 69: ... and self._drone_response == "ok"; else lines 77-78
TemplateInitCheckOk ==
  /\ tpl.pc["user"] = "T69r"
  /\ tpl' = [tpl EXCEPT !.pc["user"] = IF IsOk(tpl.drone_response) THEN "T70"
                                       ELSE "T80"]
  /\ UNCHANGED connector

\* line 70: self._tello_connected = True
TemplateSetConnected ==
  /\ tpl.pc["user"] = "T70"
  /\ tpl' = [tpl EXCEPT !.tello_connected = TRUE, !.pc["user"] = "T71"]
  /\ UNCHANGED connector

\* lines 71-72: the telemetry listener is started
TemplateStartStateThread ==
  /\ tpl.pc["user"] = "T71"
  /\ tpl' = [tpl EXCEPT !.pc["user"] = "T73", !.pc["state"] = "T102"]
  /\ UNCHANGED connector

\* lines 73-74: the sender is started
TemplateStartSenderThread ==
  /\ tpl.pc["user"] = "T73"
  /\ tpl' = [tpl EXCEPT !.pc["user"] = "T75", !.pc["sender"] = "T195"]
  /\ UNCHANGED connector

\* line 75: append((di.command(), 2))
TemplateAppendSecond ==
  /\ tpl.pc["user"] = "T75"
  /\ tpl' = [tpl EXCEPT
               !.drone_instruction_stack = Append(@, <<command, 2>>),
               !.pc["user"] = "T80"]
  /\ UNCHANGED connector

\* line 80: return True, on every path
TemplateReturnTrue ==
  /\ tpl.pc["user"] = "T80"
  /\ tpl' = [tpl EXCEPT !.ret = "True", !.pc["user"] = "idle"]
  /\ UNCHANGED connector

\* _send_commands, lines 194-200: while connected the loop goes on; else the
\* thread ends
TemplateLoopTop ==
  /\ tpl.pc["sender"] = "T195"
  /\ tpl' = [tpl EXCEPT !.pc["sender"] = IF tpl.tello_connected THEN "T196"
                                         ELSE "dead"]
  /\ UNCHANGED connector

\* line 196: if self._drone_instruction_stack: self._send_command()
TemplateTestStack ==
  /\ tpl.pc["sender"] = "T196"
  /\ tpl' = [tpl EXCEPT !.pc["sender"] = IF tpl.drone_instruction_stack # <<>>
                                         THEN "T206" ELSE "T195"]
  /\ UNCHANGED connector

\* _receive_response, lines 87-88: an answer of the drone is stored
TemplateReceive ==
  /\ tpl.pc["resp"] = "T87"
  /\ tpl.socket_receive_response \in {"bound", "closed"}
  /\ tpl.owed > 0
  /\ \E p \in Payloads :
       tpl' = [tpl EXCEPT !.drone_response = p, !.owed = @ - 1, !.pc["resp"] = "T89"]
  /\ UNCHANGED connector

\* line 89: self._response_event.set(); then recvfrom again, which raises
\* on a closed socket (lines 92-94: close() is called)
TemplateSetEvent ==
  /\ tpl.pc["resp"] = "T89"
  /\ tpl' = [tpl EXCEPT !.response_event = TRUE,
                        !.pc["resp"] = IF tpl.socket_receive_response = "closed"
                                       THEN "T172" ELSE "T87"]
  /\ UNCHANGED connector

\* lines 87, 92-94: the recvfrom in progress raises OSError on the closed
\* socket
TemplateReceiveError ==
  /\ tpl.pc["resp"] = "T87" /\ tpl.socket_receive_response = "closed"
  /\ tpl' = [tpl EXCEPT !.pc["resp"] = "T172"]
  /\ UNCHANGED connector

\* _receive_state, lines 102-103: a telemetry datagram is stored
TemplateReceiveState ==
  /\ tpl.pc["state"] = "T102"
  /\ tpl.socket_receive_state \in {"bound", "closed"}
  /\ \E p \in StatePayloads :
       tpl' = [tpl EXCEPT !.state = p,
                          !.pc["state"] = IF tpl.socket_receive_state = "closed"
                                          THEN "T172" ELSE "T102"]
  /\ UNCHANGED connector

\* lines 102, 105-107: the recvfrom in progress raises OSError
TemplateReceiveStateError ==
  /\ tpl.pc["state"] = "T102" /\ tpl.socket_receive_state = "closed"
  /\ tpl' = [tpl EXCEPT !.pc["state"] = "T172"]
  /\ UNCHANGED connector

\* the drone never answers a command, or the answer is lost
TemplateDroneSilent ==
  /\ tpl.owed > 0
  /\ tpl' = [tpl EXCEPT !.owed = @ - 1]
  /\ UNCHANGED connector

\* the caller calls send_instruction(i); line 120 stores i, line 121
\* translates it
TemplateSendInstructionCall ==
  /\ tpl.pc["user"] = "idle"
  /\ \E i \in Instructions :
       tpl' = [tpl EXCEPT !.last_instruction = i, !.pc["user"] = "T122"]
  /\ UNCHANGED connector

\* line 122: self._drone_instruction_stack.clear()
TemplateClearStack ==
  /\ tpl.pc["user"] = "T122"
  /\ tpl' = [tpl EXCEPT !.drone_instruction_stack = <<>>, !.pc["user"] = "T123"]
  /\ UNCHANGED connector

\* line 123: self._drone_instruction_stack.extend(instruction_set)
TemplateExtendStack ==
  /\ tpl.pc["user"] = "T123"
  /\ tpl' = [tpl EXCEPT
               !.drone_instruction_stack = @ \o translate(tpl.last_instruction),
               !.pc["user"] = "T124"]
  /\ UNCHANGED connector

\* line 124: self._new_instruction_event.set()
TemplateSetNew ==
  /\ tpl.pc["user"] = "T124"
  /\ tpl' = [tpl EXCEPT !.new_instruction_event = TRUE, !.pc["user"] = "idle"]
  /\ UNCHANGED connector

\* the caller calls close()
TemplateCloseCall ==
  /\ tpl.pc["user"] = "idle"
  /\ tpl' = [tpl EXCEPT !.pc["user"] = "T172"]
  /\ UNCHANGED connector

\* close, line 172: if self._tello_connected; else only a log line
TemplateCloseTest(t) ==
  /\ tpl.pc[t] = "T172"
  /\ tpl' = [tpl EXCEPT !.pc[t] = IF tpl.tello_connected THEN "T173"
                                  ELSE AfterClose(t)]
  /\ UNCHANGED connector

\* line 173: self._socket_receive_response.close()
TemplateCloseResponseSocket(t) ==
  /\ tpl.pc[t] = "T173"
  /\ tpl' = [tpl EXCEPT !.socket_receive_response = "closed", !.pc[t] = "T174"]
  /\ UNCHANGED connector

\* line 174: self._socket_receive_state.close()
TemplateCloseStateSocket(t) ==
  /\ tpl.pc[t] = "T174"
  /\ tpl' = [tpl EXCEPT !.socket_receive_state = "closed", !.pc[t] = "T175"]
  /\ UNCHANGED connector

\* line 175: self._tello_connected = False
TemplateCloseDisconnect(t) ==
  /\ tpl.pc[t] = "T175"
  /\ tpl' = [tpl EXCEPT !.tello_connected = FALSE, !.pc[t] = AfterClose(t)]
  /\ UNCHANGED connector

NextTemplate ==
  \/ TemplateInitializeCall \/ TemplateBind \/ TemplateStartResponseThread
  \/ TemplateAppendFirst
  \/ \E t \in Senders :
       \/ TemplateClearResponse(t) \/ TemplateClearNew(t) \/ TemplateTop(t)
       \/ TemplateSend(t) \/ TemplateWaitSet(t) \/ TemplateWaitTimeout(t)
       \/ TemplateCheckOk(t) \/ TemplateTestNew(t) \/ TemplatePop(t)
  \/ TemplateInitWaitSet \/ TemplateInitWaitTimeout \/ TemplateInitCheckOk
  \/ TemplateSetConnected \/ TemplateStartStateThread
  \/ TemplateStartSenderThread \/ TemplateAppendSecond \/ TemplateReturnTrue
  \/ TemplateLoopTop \/ TemplateTestStack
  \/ TemplateReceive \/ TemplateSetEvent \/ TemplateReceiveError
  \/ TemplateReceiveState \/ TemplateReceiveStateError \/ TemplateDroneSilent
  \/ TemplateSendInstructionCall \/ TemplateClearStack \/ TemplateExtendStack
  \/ TemplateSetNew
  \/ TemplateCloseCall
  \/ \E t \in Closers :
       \/ TemplateCloseTest(t) \/ TemplateCloseResponseSocket(t)
       \/ TemplateCloseStateSocket(t) \/ TemplateCloseDisconnect(t)

\* the ConnectorTemplate instance, driven by one caller
SpecTemplate == Init /\ [][NextTemplate]_vars

----
\* C29 (as claimed): ConnectorTemplate.initialize() returns True if the
\* connection was established and False otherwise: when it returns, the
\* value is True exactly if the handshake set the connection flag.
C29_ReturnsWhetherConnected ==
  [][(tpl.pc["user"] = "T80" /\ tpl'.pc["user"] = "idle")
       => (tpl'.ret = "True" <=> tpl.pc["sender"] # "none")]_vars

\* C29 witness of the scenario: initialize() is about to return after a bind
\* failure, with no thread started and the connection flag unset
C29_Witness ==
  /\ tpl.pc["user"] = "T80" /\ tpl.socket_receive_response = "unbound"
  /\ ~tpl.tello_connected /\ tpl.pc["resp"] = "none"

----
\* drones/image_processing/utils.py, vector_to_centre.  Its products are
\* Python floats (IEEE-754 binary64): a float is 53 significant bits and a
\* binary exponent, and a product is rounded to the nearest such number.

\* the floats 0.1, 0.2, ... 0.9 as float.hex() shows them: the hexadecimal
\* digits of the significand 1.ddddddddddddd and the exponent of 2
Tenths ==
  <<
    [digits |-> <<1, 9, 9, 9, 9, 9, 9, 9, 9, 9, 9, 9, 9, 10>>, exponent |-> -4],
    [digits |-> <<1, 9, 9, 9, 9, 9, 9, 9, 9, 9, 9, 9, 9, 10>>, exponent |-> -3],
    [digits |-> <<1, 3, 3, 3, 3, 3, 3, 3, 3, 3, 3, 3, 3, 3>>, exponent |-> -2],
    [digits |-> <<1, 9, 9, 9, 9, 9, 9, 9, 9, 9, 9, 9, 9, 10>>, exponent |-> -2],
    [digits |-> <<1, 0, 0, 0, 0, 0, 0, 0, 0, 0, 0, 0, 0, 0>>, exponent |-> -1],
    [digits |-> <<1, 3, 3, 3, 3, 3, 3, 3, 3, 3, 3, 3, 3, 3>>, exponent |-> -1],
    [digits |-> <<1, 6, 6, 6, 6, 6, 6, 6, 6, 6, 6, 6, 6, 6>>, exponent |-> -1],
    [digits |-> <<1, 9, 9, 9, 9, 9, 9, 9, 9, 9, 9, 9, 9, 10>>, exponent |-> -1],
    [digits |-> <<1, 12, 12, 12, 12, 12, 12, 12, 12, 12, 12, 12, 12, 13>>, exponent |-> -1]
  >>

\* the four bits of a hexadecimal digit, highest first
HexBits(d) == <<d \div 8, (d \div 4) % 2, (d \div 2) % 2, d % 2>>

\* the significand of a float, lowest bit first
Significand(c) ==
  LET high == <<c.digits[1]>>
                 \o Concat([i \in 1..(Len(c.digits) - 1) |-> HexBits(c.digits[i + 1])])
  IN [i \in 1..Len(high) |-> high[Len(high) + 1 - i]]

\* the bits of a natural number, lowest first, and back
RECURSIVE Binary(_)
Binary(n) == IF n = 0 THEN <<>> ELSE <<n % 2>> \o Binary(n \div 2)
RECURSIVE Natural(_)
Natural(bits) == IF bits = <<>> THEN 0 ELSE Head(bits) + 2 * Natural(Tail(bits))

\* bits * n + carry, exactly
RECURSIVE TimesBits(_, _, _)
TimesBits(bits, n, carry) ==
  IF bits = <<>> THEN Binary(carry)
  ELSE <<(Head(bits) * n + carry) % 2>>
         \o TimesBits(Tail(bits), n, (Head(bits) * n + carry) \div 2)

\* bits + 1
RECURSIVE Increment(_)
Increment(bits) ==
  IF bits = <<>> THEN <<1>>
  ELSE IF Head(bits) = 0 THEN <<1>> \o Tail(bits)
  ELSE <<0>> \o Increment(Tail(bits))

\* c * n for a float c and an int n >= 1: the exact product, rounded to the
\* bits of a significand, to nearest and on a tie to the even one; the value
\* is Natural(bits) / 2^scale
Times(c, n) ==
  LET exact == TimesBits(Significand(c), n, 0)
      drop == Len(exact) - Len(Significand(c))
      kept == SubSeq(exact, drop + 1, Len(exact))
      up == /\ drop > 0
            /\ exact[drop] = 1
            /\ kept[1] = 1 \/ \E i \in 1..(drop - 1) : exact[i] = 1
  IN [bits |-> IF up THEN Increment(kept) ELSE kept,
      scale |-> Len(Significand(c)) - 1 - c.exponent - drop]

\* int(f) of a float f >= 0: the bits left of the binary point
Truncate(f) ==
  IF f.scale >= Len(f.bits) THEN 0
  ELSE IF f.scale >= 0 THEN Natural(SubSeq(f.bits, f.scale + 1, Len(f.bits)))
  ELSE Natural([i \in 1..(-f.scale) |-> 0] \o f.bits)

\* int(c * n) as lines 77-78 compute it (0 * c is 0.0)
IntOfProduct(c, n) == IF n = 0 THEN 0 ELSE Truncate(Times(c, n))

\* vector_to_centre (lines 55-84), centre_height_coeff being the float
\* written 0.k
vector_to_centre(frame_width, frame_height, obj_coordinates, k) ==
  LET x_centre == IntOfProduct(Tenths[5], frame_width)
      y_centre == IntOfProduct(Tenths[k], frame_height)
      x_component == x_centre - obj_coordinates[1]
      y_component == y_centre - obj_coordinates[2]
  IN <<x_component, y_component>>

\* the arguments of one call: frame sizes, object coordinates and the
\* coefficient 0.1 ... 0.9
InitVector ==
  /\ Constructed
  /\ input \in {<<"vector_to_centre", w, h, o, k>> :
                  w \in {0, 5, 6, 100, 960},
                  h \in {0, 7, 10, 90, 100, 720},
                  o \in {<<0, 0>>, <<3, 5>>, <<50, 50>>, <<75, 75>>, <<480, 360>>},
                  k \in 1..Len(Tenths)}
  /\ output = None
  /\ tpl = TemplateConstructed
  /\ frames = ProcessesCreated

\* vector_to_centre(frame_width, frame_height, obj_coordinates,
\* centre_height_coeff) is called
VectorToCentre ==
  /\ input[1] = "vector_to_centre" /\ output = None
  /\ output' = vector_to_centre(input[2], input[3], input[4], input[5])
  /\ UNCHANGED <<input, tpl, frames, prog, ctl, net, hist>>

SpecVector == InitVector /\ [][VectorToCentre]_vars

----
\* C30 (as claimed): vector_to_centre(w, h, (x, y), c) is exactly
\* (trunc(0.5 * w) - x, trunc(c * h) - y) for all sizes and coordinates >= 0
\* and c in {0.1, ..., 0.9}; an object at the centre of a frame of even sizes,
\* with c = 0.5, gives (0, 0).
C30_ExactTruncation ==
  (input[1] = "vector_to_centre" /\ output # None)
    => /\ output = <<(5 * input[2]) \div 10 - input[4][1],
                     (input[5] * input[3]) \div 10 - input[4][2]>>
       /\ (/\ input[5] = 5 /\ input[2] % 2 = 0 /\ input[3] % 2 = 0
           /\ input[4] = <<input[2] \div 2, input[3] \div 2>>)
            => output = <<0, 0>>

\* C30 witness of the scenario: the vector for a 960 x 720 frame, the object
\* in the corner and c = 0.7
C30_Witness ==
  input = <<"vector_to_centre", 960, 720, <<0, 0>>, 7>> /\ output = <<480, 503>>

----
\* drones/image_processing/utils.py, calculate_focal and distance_to_camera.
\* Both multiply and then divide Python floats; each operation gives the
\* float nearest to the exact result (on a tie the even one).  A float is
\* kept as bits (lowest first, the lowest and the highest being 1) and scale,
\* its value being Natural(bits) / 2^scale.

\* sys.float_info.mant_dig, the number of bits of a significand
mant_dig == Len(Significand(Tenths[1]))

\* bits without its zeros at the high end
RECURSIVE Trim(_)
Trim(bits) ==
  IF bits = <<>> \/ bits[Len(bits)] = 1 THEN bits
  ELSE Trim(SubSeq(bits, 1, Len(bits) - 1))

\* the float of the value Natural(bits) / 2^scale, which it holds exactly
RECURSIVE Canonical(_, _)
Canonical(bits, scale) ==
  IF bits = <<>> THEN [bits |-> <<>>, scale |-> 0]
  ELSE IF Head(bits) = 1 THEN [bits |-> bits, scale |-> scale]
  ELSE Canonical(Tail(bits), scale - 1)

\* float(n) of an int n >= 0 of at most mant_dig bits
FromInt(n) == Canonical(Binary(n), 0)

\* the float nearest to (Natural(exact) + a fraction) / 2^scale, the fraction
\* being 0 or, when sticky, strictly between 0 and 1
Round(exact, sticky, scale) ==
  LET drop == Len(exact) - mant_dig
      kept == SubSeq(exact, drop + 1, Len(exact))
      up == /\ exact[drop] = 1
            /\ kept[1] = 1 \/ sticky \/ \E i \in 1..(drop - 1) : exact[i] = 1
  IN IF drop <= 0 THEN Canonical(exact, scale)
     ELSE Canonical(IF up THEN Increment(kept) ELSE kept, scale - drop)

\* f * n for a float f >= 0 and an int n >= 1
Multiply(f, n) == Round(TimesBits(f.bits, n, 0), FALSE, f.scale)

\* bits[lo], ..., bits[hi] divided by n >= 1, given the remainder that the
\* bits above them left: quotient and remainder.  The upper half is divided
\* first (its remainder is below n) and hands its remainder to the lower half.
RECURSIVE DivideBits(_, _, _, _, _)
DivideBits(bits, lo, hi, n, remainder) ==
  IF lo = hi
  THEN [quotient |-> <<(2 * remainder + bits[lo]) \div n>>,
        remainder |-> (2 * remainder + bits[lo]) % n]
  ELSE LET mid == (lo + hi) \div 2
           high == DivideBits(bits, mid + 1, hi, n, remainder)
           low == DivideBits(bits, lo, mid, n, high.remainder)
       IN IF high.remainder < n
          THEN [quotient |-> low.quotient \o high.quotient,
                remainder |-> low.remainder]
          ELSE high

\* f / n for a float f >= 0 and an int n >= 1: the quotient is computed to
\* more bits than a significand holds, then rounded
Divide(f, n) ==
  LET more == mant_dig + Len(Binary(n)) + 1
      dividend == [i \in 1..more |-> 0] \o f.bits
      exact == DivideBits(dividend, 1, Len(dividend), n, 0)
  IN Round(Trim(exact.quotient), exact.remainder # 0, f.scale + more)

\* calculate_focal (lines 9-29), known_width being a whole number
calculate_focal(known_width, known_distance, pixel_width) ==
  LET focal_length == Divide(Multiply(known_distance, pixel_width), known_width)
  IN focal_length

\* distance_to_camera (lines 32-52), known_width being a whole number
distance_to_camera(known_width, focal_length, pixel_width) ==
  LET distance == Divide(Multiply(focal_length, known_width), pixel_width)
  IN distance

\* the arguments of the first call: which function, known_width, the known
\* distance or the focal length, and pixel_width
InitFocal ==
  /\ Constructed
  /\ input \in {<<first, w, x, p>> :
                  first \in {"calculate_focal", "distance_to_camera"},
                  w \in {1, 3, 7, 10}, x \in {1, 2, 19, 45, 700},
                  p \in {1, 15, 29, 383, 881}}
  /\ output = None
  /\ tpl = TemplateConstructed
  /\ frames = ProcessesCreated

\* calculate_focal is called: first with the arguments, or second with the
\* distance that distance_to_camera returned
CalculateFocal ==
  /\ \/ /\ input[1] = "calculate_focal" /\ output = None
        /\ output' = <<"focal_length",
                       calculate_focal(input[2], FromInt(input[3]), input[4])>>
     \/ /\ input[1] = "distance_to_camera" /\ output[1] = "distance"
        /\ output' = <<"focal_length",
                       calculate_focal(input[2], output[2], input[4]), output[2]>>
  /\ UNCHANGED <<input, tpl, frames, prog, ctl, net, hist>>

\* distance_to_camera is called: first with the arguments, or second with the
\* focal length that calculate_focal returned
DistanceToCamera ==
  /\ \/ /\ input[1] = "distance_to_camera" /\ output = None
        /\ output' = <<"distance",
                       distance_to_camera(input[2], FromInt(input[3]), input[4])>>
     \/ /\ input[1] = "calculate_focal" /\ output[1] = "focal_length"
        /\ output' = <<"distance",
                       distance_to_camera(input[2], output[2], input[4]), output[2]>>
  /\ UNCHANGED <<input, tpl, frames, prog, ctl, net, hist>>

NextFocal == CalculateFocal \/ DistanceToCamera

SpecFocal == InitFocal /\ [][NextFocal]_vars

\* both functions were applied, one after the other
RoundTrip ==
  /\ input[1] \in {"calculate_focal", "distance_to_camera"}
  /\ Len(output) > Len(<<"name", "value">>)

----
\* C31 (as claimed): calculate_focal and distance_to_camera are mutually
\* inverse for the same known_width and pixel_width: applying one and then
\* the other gives back the distance, or the focal length, that was put in.
C31_MutuallyInverse == RoundTrip => output[2] = FromInt(input[3])

\* C31 witness of the scenario: known_width 7, distance 1 and pixel_width 29
\* went through calculate_focal and then distance_to_camera, and the distance
\* that came back is not the float 1.0
C31_Witness ==
  /\ input = <<"calculate_focal", 7, 1, 29>> /\ RoundTrip
  /\ output[1] = "distance" /\ output[2] # FromInt(1)

----
\* the dispatcher is at the sendto of "land" (line 359, called from line 294)
LandTransmit == pc["sender"] = "L359" /\ cmd["sender"] = land

\* the caller has called halt() on a connected connection
HaltCalled == pc["user"] = "L267" /\ cmd["user"] = "none" /\ tello_connected

\* C32 (as claimed): after halt() was called on a connected connection the
\* dispatcher eventually transmits "land", whatever it was doing when halt()
\* was called (unless the connection is closed first).
C32_HaltForcesLanding ==
  HaltCalled ~> (LandTransmit \/ ~tello_connected)

\* C32 witness of the scenario: halt() is called while the dispatcher holds
\* the "ok" of an earlier land and is about to clear the Land flag
C32_Witness == HaltCalled /\ pc["sender"] = "L297" /\ halted

----
\* C33: once halt() has been entered by the caller or on an error response
\* (and so at any time after it has returned), the dispatcher transmits no
\* "takeoff", "streamon" or "streamoff" and the landed bit is never false.
C33_OnlyLandAfterHalt ==
  [][halted => /\ DiscreteTransmit => cmd["sender"] \notin {takeoff, streamon, streamoff}
               /\ landed'
    ]_vars

\* C33 witness of the scenario: halt() has returned to the caller, the
\* dispatcher has had its land acknowledged and tests the Takeoff flag
C33_Witness ==
  /\ halted /\ pc["user"] = "idle" /\ tello_connected
  /\ lastSent = <<land>> /\ outcome = "ok" /\ pc["sender"] = "L300"

----
\* the caller's first call is initialize() (main.py:37), so that no request
\* of the caller precedes the handshake
NextInitializeFirst ==
  \/ initRet = "none" /\ InitializeCall
  \/ initRet # "none" /\ Next

SpecInitializeFirst == Init /\ [][NextInitializeFirst]_vars

\* C34 (as claimed): when initialize() returns True, the caller having
\* requested nothing, no discrete flag is pending (if_idle() is true) and the
\* dispatcher is not sending a discrete command, whatever the drone answered
\* to the earlier, unsuccessful handshake attempts.
C34_IdleAfterInitialize ==
  [][(pc["user"] = "L140" /\ pc'["user"] = "idle")
       => (if_idle' /\ cmd'["sender"] = "none")]_vars

\* C34 witness of the scenario: initialize() is about to return True with the
\* Land flag pending, set by the halt() of an error-bearing handshake answer
C34_Witness ==
  pc["user"] = "L140" /\ halted /\ send[land] /\ okAttempt > 1

----
\* halt(), run by thread t, sets the Land flag (line 269)
SetsLand(t) == pc[t] = "L269" /\ pc'[t] = "L270"

\* the dispatcher has taken the "ok" of the land it transmitted and goes on
\* to clear the Land flag (lines 297-298) without transmitting again
ClearDecided == pc["sender"] \in {"L297", "L298"}

\* C35 (as claimed, for the sets the dispatcher cannot answer any more): no
\* halt() sets the Land flag while the dispatcher is between the "ok" of an
\* earlier land and its clearing of the flag; such a set would be cleared
\* with no land transmitted and acknowledged after it.
C35_NoLostLand == [][\A t \in Senders : SetsLand(t) => ~ClearDecided]_vars

\* C35 witness of the scenario: the caller's halt() is about to set the Land
\* flag while the dispatcher, past the "ok" of the land of an earlier halt(),
\* is about to clear it
C35_Witness ==
  /\ pc["user"] = "L269" /\ cmd["user"] = "none" /\ tello_connected
  /\ pc["sender"] = "L298" /\ send[land] /\ outcome = "ok"

----
\* the payload of Payloads that is neither "ok" nor holds "error"
Unrecognized(p) == p = "out of range"

\* what the state machine consists of: pending flags, mode bits, control
\* vector, connection flag and sockets
Machine ==
  <<send, landed, stream_on, current_rc, tello_connected, sock_response, sock_state>>

\* C36: an unrecognized payload is recorded and otherwise ignored.  The
\* listener's step that receives it stores it in _drone_response and changes
\* nothing of the state machine; the steps with which the thread awaiting
\* the answer of a command examines it (lines 362 and 365) change neither the
\* state machine nor _drone_response, and _send_command returns False.
C36_UnrecognizedIgnored ==
  [][ /\ (pc["resp"] = "L154" /\ pc'["resp"] = "L156" /\ Unrecognized(drone_response'))
           => UNCHANGED Machine
      /\ \A t \in Senders :
           (pc[t] \in {"L362", "L365"} /\ pc'[t] # pc[t] /\ Unrecognized(drone_response))
             => /\ UNCHANGED <<Machine, drone_response>>
                /\ pc'[t] = IF pc[t] = "L362" THEN "L365" ELSE OnFalse(t)
    ]_vars

\* C36 witness of the scenario: the dispatcher, waiting for the answer to
\* land, has examined the unrecognized payload and calls _send_command again,
\* the Land flag still pending and the payload still recorded
C36_Witness ==
  /\ pc["sender"] = "L356" /\ cmd["sender"] = land /\ outcome = "other"
  /\ Unrecognized(drone_response) /\ send[land] /\ tello_connected

----
\* drones/common/frame_getter.py and drones/common/image_processor.py: the
\* two processes of main.py around the frame queue.  Positions are "Fnn", a
\* line of FrameGetterProcess.run, and "Pnn", a line of ImageProcessor.run.

\* frames the stream delivers before it ends
MaxFrames == 3
\* results after which the model stops following ImageProcessor.run
MaxResults == 4

\* everything but the two processes and their queues
others == <<prog, ctl, net, hist, input, output, tpl>>

\* main.py:51 and main.py:58, process.start()
StartImageProcessor ==
  /\ frames.pc["processor"] = "none"
  /\ frames' = [frames EXCEPT !.pc["processor"] = "P27"]
  /\ UNCHANGED others

StartFrameGetter ==
  /\ frames.pc["getter"] = "none"
  /\ frames' = [frames EXCEPT !.pc["getter"] = "F26"]
  /\ UNCHANGED others

\* lines 26-31: the next frame of the stream is read; at the end of the
\* stream ret is false (and imshow is given no image): the process ends
ReadFrame ==
  /\ frames.pc["getter"] = "F26"
  /\ frames' = IF frames.iterator < MaxFrames
               THEN [frames EXCEPT !.frame = <<"frame", frames.iterator + 1>>,
                                   !.pc["getter"] = "F34"]
               ELSE [frames EXCEPT !.pc["getter"] = "done"]
  /\ UNCHANGED others

\* Queue.empty(): nothing is waiting in the pipe (what was put and is still
\* in the buffer is not seen)
empty == frames.pipe = <<>>

\* line 34: if not self.frame_queue.empty()
TestEmpty ==
  /\ frames.pc["getter"] = "F34"
  /\ frames' = [frames EXCEPT !.pc["getter"] = IF ~empty THEN "F35" ELSE "F38"]
  /\ UNCHANGED others

\* lines 35-37: get(False) takes the oldest frame of the pipe, or raises
\* Empty, which is passed over
DropFrame ==
  /\ frames.pc["getter"] = "F35"
  /\ frames' = [frames EXCEPT
                  !.pipe = IF frames.pipe = <<>> THEN <<>> ELSE Tail(frames.pipe),
                  !.pc["getter"] = "F38"]
  /\ UNCHANGED others

\* lines 38-39: put(frame, False) on the unbounded queue, iterator += 1
PutFrame ==
  /\ frames.pc["getter"] = "F38"
  /\ frames' = [frames EXCEPT !.buffer = Append(frames.buffer, frames.frame),
                              !.iterator = frames.iterator + 1,
                              !.pc["getter"] = "F26"]
  /\ UNCHANGED others

\* the feeder thread of the frame queue writes the oldest buffered frame
\* to the pipe
Feed ==
  /\ frames.buffer # <<>>
  /\ frames' = [frames EXCEPT !.buffer = Tail(frames.buffer),
                              !.pipe = Append(frames.pipe, Head(frames.buffer))]
  /\ UNCHANGED others

\* lines 25-29: next_frame = self.frame_queue.get(False), again and again
\* until Empty is raised
GetFrame ==
  /\ frames.pc["processor"] = "P27"
  /\ frames' = IF frames.pipe # <<>>
               THEN [frames EXCEPT !.next_frame = Head(frames.pipe),
                                   !.pipe = Tail(frames.pipe)]
               ELSE [frames EXCEPT !.pc["processor"] = "P30"]
  /\ UNCHANGED others

\* line 30: if next_frame is not None
TestFrame ==
  /\ frames.pc["processor"] = "P30"
  /\ frames' = [frames EXCEPT
                  !.pc["processor"] = IF frames.next_frame # None THEN "P34" ELSE "P27"]
  /\ UNCHANGED others

\* lines 31-36: the frame is processed, the answer (here: which frame it
\* was) is put on the result queue, i += 1
ProcessFrame ==
  /\ frames.pc["processor"] = "P34"
  /\ frames.i < MaxResults
  /\ frames' = [frames EXCEPT
                  !.result_queue = Append(frames.result_queue, frames.next_frame),
                  !.i = frames.i + 1,
                  !.pc["processor"] = "P27"]
  /\ UNCHANGED others

NextFrames ==
  \/ StartImageProcessor \/ StartFrameGetter
  \/ ReadFrame \/ TestEmpty \/ DropFrame \/ PutFrame \/ Feed
  \/ GetFrame \/ TestFrame \/ ProcessFrame

SpecFrames == Init /\ [][NextFrames]_vars

\* the frames the frame queue holds: put and not yet taken
Held == frames.buffer \o frames.pipe

----
\* C37 (as claimed): ImageProcessor.run processes each frame it took from the
\* frame queue at most once: the results put on the result queue never
\* outnumber the frames the producer put on the frame queue.
C37_EachFrameOnce ==
  /\ frames.i <= frames.iterator
  /\ \A m, n \in 1..Len(frames.result_queue) :
       m # n => frames.result_queue[m] # frames.result_queue[n]

\* C37 witness of the scenario: one frame was put on the frame queue, which
\* is empty again, and ImageProcessor.run has put two results of that frame
C37_Witness ==
  /\ frames.iterator = 1 /\ Held = <<>>
  /\ frames.result_queue = <<<<"frame", 1>>, <<"frame", 1>>>>

----
\* C38 (as claimed): the frame queue never holds more than one frame, and
\* the frame ImageProcessor.run processes is the latest it has dequeued: no
\* frame is processed after a newer one.
C38_OneFrameLatestFirst ==
  /\ Len(Held) <= 1
  /\ \A m, n \in 1..Len(frames.result_queue) :
       m < n => frames.result_queue[m][2] <= frames.result_queue[n][2]

\* C38 witness of the scenario: FrameGetterProcess.run found the queue empty
\* while its first frame still was in the buffer, and has put the second
C38_Witness ==
  /\ frames.buffer = <<<<"frame", 1>>, <<"frame", 2>>>> /\ frames.pipe = <<>>
  /\ frames.pc["getter"] = "F26"

----
\* C39 (as claimed): in ConnectorTemplate the sender thread reads the top of
\* the instruction stack (line 208) and pops from it (line 216) only when the
\* stack is not empty, and what it pops is the instruction it transmitted.
C39_SenderOwnsTop ==
  [][ (tpl.pc["sender"] \in {"T208", "T216"} /\ tpl'.pc["sender"] # tpl.pc["sender"])
        => /\ tpl.drone_instruction_stack # <<>>
           /\ tpl.pc["sender"] = "T216"
                => tpl.drone_instruction_stack[Len(tpl.drone_instruction_stack)]
                     = tpl.command["sender"]
    ]_vars

\* C39 witness of the scenario: send_instruction() was called and the sender
\* thread has ended with the IndexError of an empty stack
C39_Witness ==
  tpl.pc["sender"] = "IndexError" /\ tpl.last_instruction # None

====
